---- MODULE Spec2Model ----
(***************************************************************************)
(* Access-control, tenant-isolation and appointment-lifecycle core of the  *)
(* PawDex backend.  The store (tenants, users, patients, appointments) is  *)
(* the Prisma database; one HTTP request at a time walks the NestJS        *)
(* pipeline middleware -> JwtAuthGuard -> TenantGuard -> handler.          *)
(***************************************************************************)
EXTENDS Integers, Sequences, FiniteSets, TLC

VARIABLES
    tenants,        \* tenant table: id -> row
    users,          \* user table: id -> row or NoUser
    patients,       \* patient table: id -> row
    appointments,   \* appointment table: id -> row or NoAppointment
    now,            \* wall clock, in seconds
    ticks,          \* number of clock advances so far
    issued,         \* per user: refresh tokens handed out so far
    lastIssued,     \* per user: the refresh token handed out most recently
    loggedOut,      \* per user: logged out and not logged in again since
    nodeEnv,        \* process.env.NODE_ENV
    req,            \* the request in flight and its position in the pipeline
    res,            \* response of the last request that ended
    authRes,        \* result of the last AuthService / JwtStrategy call
    entity,         \* a free-standing Appointment entity
    entityRes,      \* result of the last call on that entity
    permissions,    \* permission catalog: name -> row
    rolePermissions,    \* role -> names of the permissions assigned to it
    featureFlags,       \* feature flag table: key -> row
    roleFeatureFlags,   \* role -> key -> assignment
    accessRes,      \* result of the last permission / feature-flag call
    calls           \* service calls in flight: what each read and will write

vars == <<tenants, users, patients, appointments, now, ticks, issued,
          lastIssued, loggedOut, nodeEnv, req, res, authRes, entity, entityRes,
          permissions, rolePermissions, featureFlags, roleFeatureFlags,
          accessRes, calls>>

storeVars == <<tenants, users, patients, appointments>>
authVars == <<now, ticks, issued, lastIssued, loggedOut, authRes>>
entityVars == <<entity, entityRes>>
accessVars == <<permissions, rolePermissions, featureFlags, roleFeatureFlags,
                accessRes>>

None == "none"

\* no service call is in flight
NoCalls == << >>

(***************************************************************************)
(* Bounds of the model.                                                    *)
(***************************************************************************)
MaxTicks == 1
MaxAppointments == 1
MaxRegistered == 2

\* service calls that can be in flight at the same time
MaxCalls == 2

(***************************************************************************)
(* Appointment statuses, in the spellings that occur in the program.       *)
(***************************************************************************)
\* AppointmentStatus type of the entity
EntityStatuses ==
    {"scheduled", "confirmed", "in_progress", "completed", "cancelled", "no_show"}

\* status parameter type of the PATCH :id/status/:status route
RouteStatuses ==
    {"scheduled", "confirmed", "in-progress", "completed", "cancelled", "no-show"}

\* appointment_statuses rows created by the seed: id -> name
appointmentStatuses ==
    [id \in {"scheduled", "confirmed", "in-progress", "completed", "cancelled", "no-show"}
        |-> id]

\* names given to the rows by the test-data script
TestStatusNames == {"Scheduled", "In Progress", "Completed", "Cancelled", "No Show"}

StatusIds == DOMAIN appointmentStatuses

\* every value the entity's status field can be constructed with
StatusNames == EntityStatuses \cup RouteStatuses \cup TestStatusNames

(***************************************************************************)
(* Appointment entity.                                                     *)
(***************************************************************************)
invalidTransitions ==
    { [from |-> "completed", to |-> "scheduled"],
      [from |-> "completed", to |-> "confirmed"],
      [from |-> "completed", to |-> "in_progress"],
      [from |-> "cancelled", to |-> "scheduled"],
      [from |-> "cancelled", to |-> "confirmed"],
      [from |-> "cancelled", to |-> "in_progress"],
      [from |-> "no_show", to |-> "scheduled"],
      [from |-> "no_show", to |-> "confirmed"],
      [from |-> "no_show", to |-> "in_progress"] }

\* mutant: the deny-list lookup matches on the target status only
isInvalidTransitionToOnly(status, newStatus) ==
    \E transition \in invalidTransitions : transition.to = newStatus

isInvalidTransition(status, newStatus) ==
    \E transition \in invalidTransitions :
        transition.from = status /\ transition.to = newStatus

\* the Error thrown by validateStatusTransition
TransitionError(status, newStatus) ==
    [text |-> "Cannot change status", from |-> status, to |-> newStatus]

\* Appointment.updateStatus: the outcome and the status field afterwards
Appointment_updateStatus(status, newStatus) ==
    IF isInvalidTransition(status, newStatus)
    THEN [threw |-> TRUE, message |-> TransitionError(status, newStatus),
          status |-> status]
    ELSE [threw |-> FALSE, message |-> None, status |-> newStatus]

canBeCancelled(status) == status = "scheduled" \/ status = "confirmed"

NoEntityRes ==
    [op |-> "none", from |-> None, to |-> None, threw |-> FALSE,
     message |-> None, result |-> FALSE]

InitEntity ==
    /\ entity \in [status : StatusNames]
    /\ entityRes = NoEntityRes

EntityUpdateStatus(newStatus) ==
    LET r == Appointment_updateStatus(entity.status, newStatus) IN
    /\ entity' = [entity EXCEPT !.status = r.status]
    /\ entityRes' = [op |-> "updateStatus", from |-> entity.status, to |-> newStatus,
                     threw |-> r.threw, message |-> r.message, result |-> FALSE]
    /\ UNCHANGED <<storeVars, authVars, nodeEnv, accessVars, calls, req, res>>

EntityCanBeCancelled ==
    /\ entityRes' = [op |-> "canBeCancelled", from |-> entity.status, to |-> None,
                     threw |-> FALSE, message |-> None,
                     result |-> canBeCancelled(entity.status)]
    /\ UNCHANGED <<entity, storeVars, authVars, nodeEnv, accessVars, calls, req, res>>

(***************************************************************************)
(* The store.                                                              *)
(***************************************************************************)
\* a tenant whose id was generated by the database (cuid) and the tenant
\* the seed creates with a hand-written id
TenantA == "clh3k2j4x0000qzrmn1a2b3c4"
TenantB == "default-tenant"
TenantIds == {TenantA, TenantB}

UnknownCuid == "cxxxxxxxxxxxxxxxxxxxxxxxx"

\* the strings a client can send as an explicit tenant reference
TenantRefs == {TenantA, TenantB, "happy-paws", "default", "unknown", UnknownCuid}

\* the strings s of the model with s.startsWith('c') && s.length > 20
CuidShaped == {TenantA, UnknownCuid}

isCuidShaped(s) == s \in CuidShaped

UserIds == 1 .. MaxRegistered
AppointmentIds == 1 .. MaxAppointments
PatientIds == {"patient-a", "patient-b"}

NoUser == [exists |-> FALSE]
NoAppointment == [exists |-> FALSE]

\* a null token column and a null date column
NoToken == [sub |-> 0, email |-> None, roleId |-> None, tenantId |-> None,
            iat |-> -1, exp |-> -1]
NoDate == -1

Emails == {"vet@pawdex.com"}
Passwords == {"pw1", "pw2"}
RoleIds == {"veterinarian"}

\* bcrypt.hash / bcrypt.compare
bcryptHash(password) == <<"$2b$12$", password>>
bcryptCompare(password, hash) == hash = bcryptHash(password)

InitTenants ==
    tenants = [id \in TenantIds |->
                 [subdomain |-> IF id = TenantA THEN "happy-paws" ELSE "default",
                  isActive |-> TRUE]]

UserRow(email, password, roleId, tenantId) ==
    [exists |-> TRUE, email |-> email, password |-> bcryptHash(password),
     roleId |-> roleId, tenantId |-> tenantId, isActive |-> TRUE,
     refreshToken |-> NoToken, refreshTokenExpiresAt |-> NoDate]

InitPatients ==
    patients = [id \in PatientIds |->
                  [tenantId |-> IF id = "patient-a" THEN TenantA ELSE TenantB,
                   isActive |-> TRUE]]

(***************************************************************************)
(* TenantsService.                                                         *)
(***************************************************************************)
Ok(v) == [kind |-> "ok", value |-> v]
Throw(kind, message) == [kind |-> kind, message |-> message]

TenantView(id) ==
    [id |-> id, subdomain |-> tenants[id].subdomain, isActive |-> tenants[id].isActive]

\* an absent tenant context and an absent req.user
NoTenant == [id |-> None, subdomain |-> None, isActive |-> FALSE]
NoReqUser == [id |-> 0, tenantId |-> None]

TenantsService_findOne(id) ==
    IF id \in DOMAIN tenants
    THEN Ok(TenantView(id))
    ELSE Throw("NotFound", "Tenant not found")

TenantsService_findBySubdomain(subdomain) ==
    LET found == {id \in DOMAIN tenants : tenants[id].subdomain = subdomain} IN
    IF found = {}
    THEN Throw("NotFound", "Tenant not found")
    ELSE LET id == CHOOSE t \in found : TRUE IN
         IF ~tenants[id].isActive
         THEN Throw("BadRequest", "Tenant is inactive")
         ELSE Ok(TenantView(id))

\* TenantsService.update(id, { isActive }) as used by deactivate / activate
TenantsService_setActive(id, isActive) ==
    /\ id \in DOMAIN tenants
    /\ tenants' = [tenants EXCEPT ![id].isActive = isActive]

(***************************************************************************)
(* Session tokens.                                                         *)
(***************************************************************************)
AccessTtl == 900
RefreshTtl == 604800

\* jwtService.sign(payload, { expiresIn }) at time t
Sign(id, user, t, ttl) ==
    [sub |-> id, email |-> user.email, roleId |-> user.roleId,
     tenantId |-> user.tenantId, iat |-> t, exp |-> t + ttl]

\* a token that does not carry a valid signature
Garbage == [sub |-> 0, email |-> None, roleId |-> None, tenantId |-> None,
            iat |-> 0, exp |-> 0]

\* jwtService.verify / passport-jwt with ignoreExpiration: false
jwtVerify(token, t) == token # Garbage /\ t < token.exp

\* mutant: the subject's tenant is not looked up
JwtStrategy_validateAnyTenant(payload) ==
    IF ~(payload.sub \in UserIds /\ users[payload.sub].exists
         /\ users[payload.sub].isActive)
    THEN Throw("Unauthorized", "User not found or inactive")
    ELSE LET user == users[payload.sub] IN
         IF payload.tenantId # None /\ user.tenantId # payload.tenantId
         THEN Throw("Unauthorized", "Token tenant mismatch")
         ELSE Ok([id |-> payload.sub, tenantId |-> user.tenantId])

\* JwtStrategy.validate(payload)
JwtStrategy_validate(payload) ==
    IF ~(payload.sub \in UserIds /\ users[payload.sub].exists
         /\ users[payload.sub].isActive)
    THEN Throw("Unauthorized", "User not found or inactive")
    ELSE LET user == users[payload.sub] IN
         IF payload.tenantId # None /\ user.tenantId # payload.tenantId
         THEN Throw("Unauthorized", "Token tenant mismatch")
         ELSE IF user.tenantId # None
                 /\ ( TenantsService_findOne(user.tenantId).kind # "ok"
                      \/ ~TenantsService_findOne(user.tenantId).value.isActive )
              THEN Throw("Unauthorized", "Invalid tenant")
              ELSE Ok([id |-> payload.sub, tenantId |-> user.tenantId])

(***************************************************************************)
(* TenantContextMiddleware.                                                *)
(***************************************************************************)
\* Host header values, as host.split('.')
NoHost == << >>
Hosts == { NoHost,
           <<"localhost:3001">>,
           <<"www", "pawdex", "com">>,
           <<"api", "pawdex", "com">>,
           <<"happy-paws", "pawdex", "com">>,
           <<"default", "pawdex", "com">>,
           <<"unknown", "pawdex", "com">> }

skipPaths == {"/api/health", "/api/auth/login", "/api/auth/register", "/api/tenants"}

shouldSkipTenantResolution(path) == path \in skipPaths

\* the resolved tenant, None for "no signal", or the exception thrown
extractTenantFromSubdomain(host) ==
    IF host = NoHost THEN Ok(NoTenant)
    ELSE IF Len(host) < 2 \/ host[1] = "www" THEN Ok(NoTenant)
    ELSE IF host[1] \in {"api", "admin", "app"} THEN Ok(NoTenant)
    ELSE LET r == TenantsService_findBySubdomain(host[1]) IN
         IF r.kind = "ok" THEN r ELSE Ok(NoTenant)

\* lookup of an explicit reference: by id when it looks like a cuid
resolveTenantRef(ref) ==
    IF isCuidShaped(ref)
    THEN TenantsService_findOne(ref)
    ELSE TenantsService_findBySubdomain(ref)

\* mutant: a header that does not resolve is treated as no signal
extractTenantFromHeaderSilent(xTenantId, xTenantSubdomain) ==
    LET tenantHeader == IF xTenantId # None THEN xTenantId ELSE xTenantSubdomain IN
    IF tenantHeader = None THEN Ok(NoTenant)
    ELSE LET r == resolveTenantRef(tenantHeader) IN
         IF r.kind = "ok" THEN r ELSE Ok(NoTenant)

extractTenantFromHeader(xTenantId, xTenantSubdomain) ==
    LET tenantHeader == IF xTenantId # None THEN xTenantId ELSE xTenantSubdomain IN
    IF tenantHeader = None THEN Ok(NoTenant)
    ELSE LET r == resolveTenantRef(tenantHeader) IN
         IF r.kind = "ok" THEN r
         ELSE Throw("BadRequest", "Invalid tenant specified in header")

\* reqUser is req.user at the time the middleware runs
extractTenantFromToken(reqUser) ==
    IF reqUser = NoReqUser \/ reqUser.tenantId = None THEN Ok(NoTenant)
    ELSE LET r == TenantsService_findOne(reqUser.tenantId) IN
         IF r.kind = "ok" THEN r ELSE Ok(NoTenant)

extractTenantFromQuery(tenantQuery) ==
    IF tenantQuery = None THEN Ok(NoTenant)
    ELSE LET r == resolveTenantRef(tenantQuery) IN
         IF r.kind = "ok" THEN r
         ELSE Throw("BadRequest", "Invalid tenant specified in query parameter")

(***************************************************************************)
(* Permission catalog and feature flags.  A permission name is kept as its *)
(* general part and the ':own' suffix, so that endsWith(':own') and        *)
(* replace(':own', '') are computed on it.                                 *)
(***************************************************************************)
Perm(base, own) == [base |-> base, own |-> own]

SystemAdmin == Perm("system.admin", FALSE)

\* the part of the seeded catalog the model keeps
PermissionNames ==
    { SystemAdmin,
      Perm("appointments.read", FALSE),
      Perm("appointments.read", TRUE),
      Perm("appointments.update", FALSE),
      Perm("appointments.delete", FALSE) }

\* names a caller can ask for: the catalog and a name that is not in it
RequiredNames == PermissionNames \cup {Perm("appointments.delete", TRUE)}

NoPerm == Perm(None, FALSE)

endsWithOwn(name) == name.own
replaceOwn(name) == [name EXCEPT !.own = FALSE]

FlagKeys == {"advanced_reporting", "premium_features"}
NoFlag == [exists |-> FALSE, isActive |-> FALSE, isGlobal |-> FALSE]
Assignments == {"none", "enabled", "disabled"}

NoAccessRes ==
    [op |-> "none", userId |-> 0, roleId |-> None, required |-> NoPerm,
     key |-> None, granted |-> FALSE, names |-> {}, thrown |-> None,
     status |-> 0]

\* the seeded catalog, all active; the veterinarian role holds
\* appointments.read and appointments.update; no feature flag exists
InitAccessIdle ==
    /\ permissions = [n \in PermissionNames |-> [isActive |-> TRUE]]
    /\ rolePermissions = [r \in RoleIds |-> {Perm("appointments.read", FALSE),
                                            Perm("appointments.update", FALSE)}]
    /\ featureFlags = [k \in FlagKeys |-> NoFlag]
    /\ roleFeatureFlags = [r \in RoleIds |-> [k \in FlagKeys |-> "none"]]
    /\ accessRes = NoAccessRes

(***************************************************************************)
(* Guards.                                                                 *)
(***************************************************************************)
\* the routes of the model: path, public marker, RequireTenant marker and
\* the RequirePermissions list
Routes ==
    { [name |-> "appointments", path |-> "/api/appointments",
       isPublic |-> FALSE, requireTenant |-> TRUE, permissions |-> {}],
      [name |-> "patients", path |-> "/api/patients",
       isPublic |-> FALSE, requireTenant |-> TRUE, permissions |-> {}],
      [name |-> "roles", path |-> "/api/roles",
       isPublic |-> FALSE, requireTenant |-> FALSE, permissions |-> {}],
      [name |-> "tenants", path |-> "/api/tenants",
       isPublic |-> FALSE, requireTenant |-> FALSE,
       permissions |-> {Perm("tenant:update", FALSE)}] }

\* JwtAuthGuard: a public route passes, any other route runs verify
JwtAuthGuard_canActivate(route, bearer) ==
    IF route.isPublic THEN Ok(NoReqUser)
    ELSE IF bearer = NoToken \/ ~jwtVerify(bearer, now)
         THEN Throw("Unauthorized", "Unauthorized")
         ELSE JwtStrategy_validate(bearer)

\* mutant: the activity of the resolved tenant is not looked at
TenantGuard_canActivateAnyTenant(route, tenant) ==
    IF ~route.requireTenant THEN Ok(TRUE)
    ELSE IF tenant = NoTenant
         THEN Throw("BadRequest", "Tenant context is required for this operation")
         ELSE Ok(TRUE)

TenantGuard_canActivate(route, tenant) ==
    IF ~route.requireTenant THEN Ok(TRUE)
    ELSE IF tenant = NoTenant
         THEN Throw("BadRequest", "Tenant context is required for this operation")
         ELSE IF ~tenant.isActive
              THEN Throw("Forbidden", "Tenant is not active")
              ELSE Ok(TRUE)

(***************************************************************************)
(* AppointmentsService (tenant-aware).  Each operation yields its outcome, *)
(* the appointment table afterwards and the rows it read or wrote.         *)
(***************************************************************************)
\* a date of a dto: a Date object or the ISO string the HTTP body carries
Dates == [isDate : BOOLEAN, past : BOOLEAN]
NoDateGiven == [isDate |-> FALSE, past |-> FALSE, absent |-> TRUE]

\* the JavaScript comparison  date < new Date()
beforeNow(date) == date.isDate /\ date.past

Rec(kind, id, tenantId) == [kind |-> kind, id |-> id, tenantId |-> tenantId]

Result(status, message, table, records) ==
    [status |-> status, message |-> message, table |-> table, records |-> records]

\* prisma.appointment.findFirst({ where: { id, tenantId } })
findAppointment(id, tenantId) ==
    id \in AppointmentIds /\ appointments[id].exists
        /\ appointments[id].tenantId = tenantId

\* prisma.patient.findFirst / prisma.user.findFirst with tenantId, isActive
findActivePatient(id, tenantId) ==
    id \in PatientIds /\ patients[id].tenantId = tenantId /\ patients[id].isActive

findActiveUser(id, tenantId) ==
    id \in UserIds /\ users[id].exists /\ users[id].tenantId = tenantId
        /\ users[id].isActive

\* status?.name || statusId of mapToAppointmentData
mapToAppointmentData(row) ==
    IF row.statusId \in DOMAIN appointmentStatuses
    THEN appointmentStatuses[row.statusId]
    ELSE row.statusId

\* status.replace('-', '_')
replaceHyphen(status) ==
    CASE status = "in-progress" -> "in_progress"
      [] status = "no-show" -> "no_show"
      [] OTHER -> status

\* the foreign key appointments.statusId -> appointment_statuses.id
ForeignKeyError == "Foreign key constraint failed on the field: statusId"

FreeAppointmentIds == {id \in AppointmentIds : ~appointments[id].exists}

\* mutant: the dto is spread after tenantId and statusId
AppointmentsService_createSpreadLast(dto, tenantId) ==
    IF beforeNow(dto.date)
    THEN Result("BadRequest", "Scheduled date cannot be in the past", appointments, {})
    ELSE IF dto.duration <= 0
    THEN Result("BadRequest", "Duration must be positive", appointments, {})
    ELSE IF ~findActivePatient(dto.patientId, tenantId)
    THEN Result("BadRequest", "Patient not found in this tenant", appointments, {})
    ELSE IF ~findActiveUser(dto.vetId, tenantId)
    THEN Result("BadRequest", "Veterinarian not found in this tenant", appointments, {})
    ELSE LET id == CHOOSE i \in FreeAppointmentIds :
                       \A j \in FreeAppointmentIds : i <= j
             t == IF dto.tenantId # None THEN dto.tenantId ELSE tenantId IN
         Result("ok", None,
                [appointments EXCEPT ![id] =
                    [exists |-> TRUE, tenantId |-> t,
                     patientId |-> dto.patientId, vetId |-> dto.vetId,
                     statusId |-> IF dto.statusId # None THEN dto.statusId
                                  ELSE "scheduled",
                     duration |-> dto.duration]],
                {Rec("appointment", id, t)})

\* create: data is { ...dto, tenantId, statusId: 'scheduled' }, so the two
\* fields of the dto, if any, are overwritten
AppointmentsService_create(dto, tenantId) ==
    IF beforeNow(dto.date)
    THEN Result("BadRequest", "Scheduled date cannot be in the past", appointments, {})
    ELSE IF dto.duration <= 0
    THEN Result("BadRequest", "Duration must be positive", appointments, {})
    ELSE IF ~findActivePatient(dto.patientId, tenantId)
    THEN Result("BadRequest", "Patient not found in this tenant", appointments, {})
    ELSE IF ~findActiveUser(dto.vetId, tenantId)
    THEN Result("BadRequest", "Veterinarian not found in this tenant", appointments, {})
    ELSE LET id == CHOOSE i \in FreeAppointmentIds :
                       \A j \in FreeAppointmentIds : i <= j IN
         Result("ok", None,
                [appointments EXCEPT ![id] =
                    [exists |-> TRUE, tenantId |-> tenantId,
                     patientId |-> dto.patientId, vetId |-> dto.vetId,
                     statusId |-> "scheduled", duration |-> dto.duration]],
                {Rec("appointment", id, tenantId)})

AppointmentsService_findAll(tenantId) ==
    Result("ok", None, appointments,
           {Rec("appointment", id, appointments[id].tenantId) :
               id \in {i \in AppointmentIds : appointments[i].exists
                                              /\ appointments[i].tenantId = tenantId}})

AppointmentsService_findOne(id, tenantId) ==
    IF ~findAppointment(id, tenantId)
    THEN Result("NotFound", "Appointment not found in this tenant", appointments, {})
    ELSE Result("ok", None, appointments,
                {Rec("appointment", id, appointments[id].tenantId)})

AppointmentsService_update(id, dto, tenantId) ==
    IF ~findAppointment(id, tenantId)
    THEN Result("NotFound", "Appointment not found in this tenant", appointments, {})
    ELSE IF mapToAppointmentData(appointments[id]) = "completed"
    THEN Result("BadRequest", "Cannot update completed appointment", appointments, {})
    ELSE IF ~("absent" \in DOMAIN dto.date) /\ beforeNow(dto.date)
    THEN Result("BadRequest", "Scheduled date cannot be in the past", appointments, {})
    ELSE LET statusId == IF dto.status # None THEN dto.status
                         ELSE appointments[id].statusId
             duration == IF dto.duration # 0 THEN dto.duration
                         ELSE appointments[id].duration IN
         IF statusId \notin StatusIds
         THEN Result("InternalServerError", ForeignKeyError, appointments, {})
         ELSE Result("ok", None,
                     [appointments EXCEPT ![id].statusId = statusId,
                                          ![id].duration = duration],
                     {Rec("appointment", id, appointments[id].tenantId)})

AppointmentsService_updateStatus(id, status, tenantId) ==
    IF ~findAppointment(id, tenantId)
    THEN Result("NotFound", "Appointment not found in this tenant", appointments, {})
    ELSE LET statusId == replaceHyphen(status)
             r == Appointment_updateStatus(mapToAppointmentData(appointments[id]),
                                           status) IN
         IF r.threw
         THEN Result("BadRequest", r.message, appointments, {})
         ELSE IF statusId \notin StatusIds
         THEN Result("InternalServerError", ForeignKeyError, appointments, {})
         ELSE Result("ok", None,
                     [appointments EXCEPT ![id].statusId = statusId],
                     {Rec("appointment", id, appointments[id].tenantId)})

\* mutant: cancel without the status check
AppointmentsService_cancelAlways(id, tenantId) ==
    IF ~findAppointment(id, tenantId)
    THEN Result("NotFound", "Appointment not found in this tenant", appointments, {})
    ELSE Result("ok", None,
                [appointments EXCEPT ![id].statusId = "cancelled"],
                {Rec("appointment", id, appointments[id].tenantId)})

AppointmentsService_cancel(id, tenantId) ==
    IF ~findAppointment(id, tenantId)
    THEN Result("NotFound", "Appointment not found in this tenant", appointments, {})
    ELSE IF appointments[id].statusId # "scheduled"
            /\ appointments[id].statusId # "confirmed"
    THEN Result("BadRequest", "Appointment cannot be cancelled", appointments, {})
    ELSE Result("ok", None,
                [appointments EXCEPT ![id].statusId = "cancelled"],
                {Rec("appointment", id, appointments[id].tenantId)})

AppointmentsService_remove(id, tenantId) ==
    IF ~findAppointment(id, tenantId)
    THEN Result("NotFound", "Appointment not found in this tenant", appointments, {})
    ELSE Result("ok", None,
                [appointments EXCEPT ![id].statusId = "cancelled"],
                {Rec("appointment", id, appointments[id].tenantId)})

(***************************************************************************)
(* PatientsService (the operations addressed by id).                       *)
(***************************************************************************)
PatientsService_findOne(id, tenantId) ==
    IF ~findActivePatient(id, tenantId)
    THEN Result("NotFound", "Patient not found in this tenant", patients, {})
    ELSE Result("ok", None, patients, {Rec("patient", id, patients[id].tenantId)})

PatientsService_remove(id, tenantId) ==
    IF ~findActivePatient(id, tenantId)
    THEN Result("NotFound", "Patient not found in this tenant", patients, {})
    ELSE Result("ok", None, [patients EXCEPT ![id].isActive = FALSE],
                {Rec("patient", id, patients[id].tenantId)})

(***************************************************************************)
(* Responses.                                                              *)
(***************************************************************************)
\* a call without a dto
NoDto == [date |-> NoDateGiven, duration |-> 0]

NoRes ==
    [op |-> "none", status |-> "none", message |-> None, records |-> {},
     id |-> 0, targetTenant |-> None, from |-> None, to |-> None,
     wrote |-> FALSE, tenantId |-> None, past |-> FALSE, duration |-> 0,
     dto |-> NoDto]

\* what the caller and the store saw of a call: outcome, rows touched, the
\* row addressed with its tenant and status before the call, the status
\* asked for, and whether the table was written
Response(op, r, id, targetTenant, from, to, wrote) ==
    [op |-> op, status |-> r.status, message |-> r.message, records |-> r.records,
     id |-> id, targetTenant |-> targetTenant, from |-> from, to |-> to,
     wrote |-> wrote, tenantId |-> None, past |-> FALSE, duration |-> 0,
     dto |-> NoDto]

\* the tenant of the appointment / patient a request addresses, if any
appointmentTenant(id) ==
    IF id \in AppointmentIds /\ appointments[id].exists
    THEN appointments[id].tenantId ELSE None

appointmentStatus(id) ==
    IF id \in AppointmentIds /\ appointments[id].exists
    THEN appointments[id].statusId ELSE None

\* what a tenant source gave: not consulted, no tenant, a tenant id, or an
\* exception
Unread == "unread"
Failed == "error"
UnreadHost == <<Unread>>
NoYields == [subdomain |-> Unread, header |-> Unread, token |-> Unread,
             query |-> Unread]

\* the request: its position, the signals read from it so far, what each
\* tenant source gave, the tenant context and user attached to it, the
\* guards evaluated for it and the part of the pipeline that rejected it
IdleReq ==
    [pc |-> "idle", route |-> "none", tenant |-> NoTenant, bearer |-> NoToken,
     user |-> NoReqUser, host |-> UnreadHost, header |-> Unread,
     query |-> Unread, yields |-> NoYields, guards |-> << >>,
     rejectedBy |-> None]

\* the two seeded veterinarians, one per tenant, and an empty calendar
InitStore ==
    /\ InitTenants
    /\ InitPatients
    /\ users = [id \in UserIds |->
                  IF id = 1 THEN UserRow("vet@pawdex.com", "pw1", "veterinarian", TenantA)
                  ELSE IF id = 2
                       THEN UserRow("vet@pawdex.com", "pw2", "veterinarian", TenantB)
                       ELSE NoUser]
    /\ appointments = [id \in AppointmentIds |-> NoAppointment]

\* what the caller and the store saw of an AuthService call: outcome, the
\* user and refresh token returned, the token presented, whether the email
\* was taken in the tenant named before the call, and whether the user
\* table was written
NoAuthRes ==
    [op |-> "none", status |-> "none", message |-> None, userId |-> 0,
     refreshToken |-> NoToken, presented |-> NoToken, taken |-> FALSE,
     wrote |-> FALSE]

InitAuthIdle ==
    /\ now = 0 /\ ticks = 0
    /\ issued = [id \in UserIds |-> {}]
    /\ lastIssued = [id \in UserIds |-> NoToken]
    /\ loggedOut = [id \in UserIds |-> FALSE]
    /\ authRes = NoAuthRes

InitEntityIdle ==
    /\ entity = [status |-> "scheduled"]
    /\ entityRes = NoEntityRes

(***************************************************************************)
(* Direct calls of the AppointmentsService.                                *)
(***************************************************************************)
\* a dto built in code can carry tenantId and statusId besides its fields
CreateDtos ==
    {dto \in [patientId : PatientIds, vetId : UserIds, date : Dates,
              duration : {0, 30}, tenantId : {None, TenantB},
              statusId : {None, "completed"}] :
        dto.tenantId = None <=> dto.statusId = None}

\* the dtos with the declared fields only
PlainCreateDtos == {dto \in CreateDtos : dto.tenantId = None}

UpdateDtos ==
    [status : {None} \cup StatusIds \cup {"in_progress"}, duration : {0, 60},
     date : {NoDateGiven, [isDate |-> TRUE, past |-> TRUE]}]

Apply(op, r, id, to) ==
    /\ appointments' = r.table
    /\ UNCHANGED <<tenants, users, patients, nodeEnv, accessVars, calls, req, authVars, entityVars>>
    /\ res' = Response(op, r, id, appointmentTenant(id), appointmentStatus(id), to,
                       r.table # appointments)

Create(dto, tenantId) ==
    /\ FreeAppointmentIds # {}
    /\ Apply("create", AppointmentsService_create(dto, tenantId), 0, None)

Update(id, dto, tenantId) ==
    Apply("update", AppointmentsService_update(id, dto, tenantId), id, dto.status)

UpdateStatus(id, status, tenantId) ==
    Apply("updateStatus", AppointmentsService_updateStatus(id, status, tenantId),
          id, status)

Cancel(id, tenantId) ==
    Apply("cancel", AppointmentsService_cancel(id, tenantId), id, "cancelled")

Remove(id, tenantId) ==
    Apply("remove", AppointmentsService_remove(id, tenantId), id, "cancelled")

\* PatientsService.remove: the soft delete of a patient
PatientsRemove(id, tenantId) ==
    /\ LET r == PatientsService_remove(id, tenantId) IN
       /\ patients' = r.table
       /\ res' = [Response("patients.remove", r, 0, patients[id].tenantId, None,
                           None, r.table # patients)
                    EXCEPT !.tenantId = tenantId]
    /\ UNCHANGED <<tenants, users, appointments, nodeEnv, accessVars, calls, req,
                   authVars, entityVars>>

InitAppointments ==
    /\ InitStore /\ InitAuthIdle /\ InitEntityIdle
    /\ nodeEnv = "development"
    /\ req = IdleReq
    /\ res = NoRes
    /\ InitAccessIdle
    /\ calls = NoCalls

NextAppointments ==
    \/ \E dto \in PlainCreateDtos, t \in TenantIds : Create(dto, t)
    \/ \E id \in AppointmentIds, dto \in UpdateDtos, t \in TenantIds :
           Update(id, dto, t)
    \/ \E id \in AppointmentIds, st \in RouteStatuses, t \in TenantIds :
           UpdateStatus(id, st, t)
    \/ \E id \in AppointmentIds, t \in TenantIds : Cancel(id, t)
    \/ \E id \in AppointmentIds, t \in TenantIds : Remove(id, t)

SpecAppointments == InitAppointments /\ [][NextAppointments]_vars

(***************************************************************************)
(* The specification of the free-standing entity.                          *)
(***************************************************************************)
InitEntitySpec ==
    /\ InitStore /\ InitAuthIdle /\ InitEntity
    /\ nodeEnv = "development"
    /\ req = IdleReq
    /\ res = NoRes
    /\ InitAccessIdle
    /\ calls = NoCalls

NextEntity ==
    \/ \E st \in EntityStatuses \cup RouteStatuses : EntityUpdateStatus(st)
    \/ EntityCanBeCancelled

SpecEntity == InitEntitySpec /\ [][NextEntity]_vars

(***************************************************************************)
(* Properties of the appointment lifecycle.                                *)
(***************************************************************************)
\* the absorbing statuses and the earlier statuses, in the spelling of the
\* entity and in the spelling of the status table
Absorbing == {"completed", "cancelled", "no_show", "no-show"}
Earlier == {"scheduled", "confirmed", "in_progress", "in-progress"}

\* C2: no operation of the service changes a persisted status from
\* completed, cancelled or no_show to scheduled, confirmed or in_progress.
C2_NoIllegalPersistedTransition ==
    [][\A id \in AppointmentIds :
          (appointments[id].exists /\ appointments[id].statusId \in Absorbing)
              => appointments'[id].statusId \notin Earlier]_vars

\* C3: Appointment.updateStatus(to) throws exactly for the nine pairs from
\* {completed, cancelled, no_show} to {scheduled, confirmed, in_progress};
\* for every other pair of the six statuses it sets the status to `to`.
C3_UpdateStatusDenyList ==
    (entityRes.op = "updateStatus" /\ entityRes.from \in EntityStatuses
        /\ entityRes.to \in EntityStatuses)
    => /\ entityRes.threw <=>
              ( entityRes.from \in {"completed", "cancelled", "no_show"}
                /\ entityRes.to \in {"scheduled", "confirmed", "in_progress"} )
       /\ entity.status = IF entityRes.threw THEN entityRes.from ELSE entityRes.to

C3_Witness ==
    /\ entityRes.op = "updateStatus" /\ entityRes.threw
    /\ entityRes.from = "no_show" /\ entityRes.to = "in_progress"
    /\ entity.status = "no_show"

\* C4: updateStatus on a persisted completed / cancelled / no-show status with
\* a target of scheduled / confirmed / in-progress fails with a BadRequest
\* naming the pair and writes nothing; scheduled -> completed is persisted.
C4_ServiceUpdateStatus ==
    (res.op = "updateStatus" /\ res.status # "NotFound")
    => /\ (res.from \in Absorbing /\ res.to \in Earlier)
            => ( /\ res.status = "BadRequest"
                 /\ res.message = TransitionError(res.from, res.to)
                 /\ ~res.wrote )
       /\ (res.from = "scheduled" /\ res.to = "completed")
            => ( res.status = "ok" /\ appointments[res.id].statusId = "completed" )

\* C5: cancel fails with BadRequest and writes nothing unless the status is
\* scheduled or confirmed; then it succeeds and persists cancelled.
C5_Cancel ==
    (res.op = "cancel" /\ res.status # "NotFound")
    => IF res.from \in {"scheduled", "confirmed"}
       THEN res.status = "ok" /\ appointments[res.id].statusId = "cancelled"
       ELSE res.status = "BadRequest" /\ ~res.wrote

C5_Witness ==
    /\ res.op = "cancel" /\ res.status = "BadRequest" /\ res.from = "completed"
    /\ appointments[res.id].statusId = "completed"

(***************************************************************************)
(* One request through the pipeline.  TenantContextMiddleware.use runs     *)
(* first and awaits one tenant lookup per source; then the global          *)
(* JwtAuthGuard, then the TenantGuard, then the controller method, which   *)
(* hands req.tenantId to the service.  Each part of the request is read    *)
(* at the step that consumes it.                                           *)
(***************************************************************************)
RouteOf(name) == CHOOSE r \in Routes : r.name = name

\* bearer credentials a client can present: none, a token with a bad
\* signature, or the access token of an existing user
Bearers ==
    {NoToken, Garbage}
        \cup {Sign(id, users[id], now, AccessTtl) : id \in {u \in UserIds : users[u].exists}}

Idle == UNCHANGED <<authVars, entityVars, nodeEnv, accessVars, calls>>

\* mutant: the exception is answered but the request goes on to its handler
RejectAndProceed(r, op, e) ==
    /\ res' = [NoRes EXCEPT !.op = op, !.status = e.kind, !.message = e.message]
    /\ req' = [r EXCEPT !.pc = "handler", !.rejectedBy = op]

\* the request r ends with the exception e
Reject(r, op, e) ==
    /\ res' = [NoRes EXCEPT !.op = op, !.status = e.kind, !.message = e.message]
    /\ req' = [r EXCEPT !.pc = "done", !.rejectedBy = op]

\* req.tenant = tenant; req.tenantId = tenant.id; next()
Attach(r, tenant) ==
    /\ req' = [r EXCEPT !.pc = "auth", !.tenant = tenant]
    /\ res' = res

\* a request arrives; use() returns at once for the skipped paths
Receive(route) ==
    /\ req.pc \in {"idle", "done"}
    /\ req' = [IdleReq EXCEPT !.route = route.name,
                              !.pc = IF shouldSkipTenantResolution(route.path)
                                     THEN "auth" ELSE "subdomain"]
    /\ res' = NoRes
    /\ UNCHANGED storeVars /\ Idle

\* Method 1: the Host header
MiddlewareSubdomain(host) ==
    /\ req.pc = "subdomain"
    /\ LET m == extractTenantFromSubdomain(host)
           r == [req EXCEPT !.host = host, !.yields.subdomain = m.value.id] IN
       IF m.value.id # None
       THEN Attach(r, m.value)
       ELSE req' = [r EXCEPT !.pc = "header"] /\ res' = res
    /\ UNCHANGED storeVars /\ Idle

\* Method 2: the X-Tenant-ID / X-Tenant-Subdomain headers
MiddlewareHeader(xTenantId, xTenantSubdomain) ==
    /\ req.pc = "header"
    /\ LET m == extractTenantFromHeader(xTenantId, xTenantSubdomain)
           r == [req EXCEPT !.header = IF xTenantId # None THEN xTenantId
                                       ELSE xTenantSubdomain] IN
       IF m.kind # "ok"
       THEN Reject([r EXCEPT !.yields.header = Failed], "middleware", m)
       ELSE IF m.value.id # None
            THEN Attach([r EXCEPT !.yields.header = m.value.id], m.value)
            ELSE /\ req' = [r EXCEPT !.pc = "token", !.yields.header = None]
                 /\ res' = res
    /\ UNCHANGED storeVars /\ Idle

\* mutant: the query parameter is consulted in every environment
MiddlewareTokenAnyEnv ==
    /\ req.pc = "token"
    /\ LET m == extractTenantFromToken(req.user)
           r == [req EXCEPT !.yields.token = m.value.id] IN
       IF m.value.id # None THEN Attach(r, m.value)
       ELSE req' = [r EXCEPT !.pc = "query"] /\ res' = res
    /\ UNCHANGED storeVars /\ Idle

\* Method 3: req.user, which passport sets only when the JwtAuthGuard runs,
\* after every middleware
MiddlewareToken ==
    /\ req.pc = "token"
    /\ LET m == extractTenantFromToken(req.user)
           r == [req EXCEPT !.yields.token = m.value.id] IN
       IF m.value.id # None THEN Attach(r, m.value)
       ELSE IF nodeEnv # "production"
            THEN req' = [r EXCEPT !.pc = "query"] /\ res' = res
            ELSE Attach(r, NoTenant)
    /\ UNCHANGED storeVars /\ Idle

\* Method 4: the tenant query parameter
MiddlewareQuery(tenantQuery) ==
    /\ req.pc = "query"
    /\ LET m == extractTenantFromQuery(tenantQuery)
           r == [req EXCEPT !.query = tenantQuery] IN
       IF m.kind # "ok"
       THEN Reject([r EXCEPT !.yields.query = Failed], "middleware", m)
       ELSE Attach([r EXCEPT !.yields.query = m.value.id], m.value)
    /\ UNCHANGED storeVars /\ Idle

\* the guards bound to a route, in the order Nest evaluates them: the
\* global guards in the order of the providers, then the guards that
\* RequireTenant binds to the controller
GuardChain(route) ==
    <<"JwtAuthGuard", "TenantGuard">>
        \o (IF route.requireTenant THEN <<"JwtAuthGuard", "TenantGuard">> ELSE << >>)

\* where the request goes once Len(guards) guards of its route have passed
afterGuard(route, guards) ==
    IF Len(guards) = Len(GuardChain(route)) THEN "handler"
    ELSE IF GuardChain(route)[Len(guards) + 1] = "JwtAuthGuard" THEN "auth"
         ELSE "tenantGuard"

\* the JwtAuthGuard reads the Authorization header of the request
AuthGuardStep(bearer) ==
    /\ req.pc = "auth"
    /\ req.guards = << >> \/ bearer = req.bearer
    /\ LET g == JwtAuthGuard_canActivate(RouteOf(req.route), bearer)
           r == [req EXCEPT !.guards = Append(@, "JwtAuthGuard"),
                            !.bearer = bearer] IN
       IF g.kind # "ok"
       THEN Reject(r, "JwtAuthGuard", g)
       ELSE /\ req' = [r EXCEPT !.pc = afterGuard(RouteOf(req.route), r.guards),
                                !.user = g.value]
            /\ res' = res
    /\ UNCHANGED storeVars /\ Idle

TenantGuardStep ==
    /\ req.pc = "tenantGuard"
    /\ LET g == TenantGuard_canActivate(RouteOf(req.route), req.tenant)
           r == [req EXCEPT !.guards = Append(@, "TenantGuard")] IN
       IF g.kind # "ok"
       THEN Reject(r, "TenantGuard", g)
       ELSE /\ req' = [r EXCEPT !.pc = afterGuard(RouteOf(req.route), r.guards)]
            /\ res' = res
    /\ UNCHANGED storeVars /\ Idle

\* controller methods: each passes req.tenantId to the service
HandleAppointments(op, r, id, to) ==
    /\ req.pc = "handler" /\ req.route = "appointments"
    /\ req' = [req EXCEPT !.pc = "done"]
    /\ res' = Response(op, r, id, appointmentTenant(id), appointmentStatus(id), to,
                       r.table # appointments)
    /\ appointments' = r.table
    /\ UNCHANGED <<tenants, users, patients>> /\ Idle

\* the dtos that pass the ValidationPipe: dates are ISO strings, durations
\* are at least 1
HttpCreateDtos ==
    {dto \in PlainCreateDtos : ~dto.date.isDate /\ dto.duration >= 1}
HttpUpdateDtos == {dto \in UpdateDtos : "absent" \in DOMAIN dto.date}

AppointmentsController_create(dto) ==
    /\ FreeAppointmentIds # {}
    /\ HandleAppointments("create", AppointmentsService_create(dto, req.tenant.id),
                          0, None)

AppointmentsController_findAll ==
    HandleAppointments("findAll", AppointmentsService_findAll(req.tenant.id), 0, None)

AppointmentsController_findOne(id) ==
    HandleAppointments("findOne", AppointmentsService_findOne(id, req.tenant.id),
                       id, None)

AppointmentsController_update(id, dto) ==
    HandleAppointments("update", AppointmentsService_update(id, dto, req.tenant.id),
                       id, dto.status)

AppointmentsController_updateStatus(id, status) ==
    HandleAppointments("updateStatus",
                       AppointmentsService_updateStatus(id, status, req.tenant.id),
                       id, status)

AppointmentsController_cancel(id) ==
    HandleAppointments("cancel", AppointmentsService_cancel(id, req.tenant.id),
                       id, "cancelled")

AppointmentsController_remove(id) ==
    HandleAppointments("remove", AppointmentsService_remove(id, req.tenant.id),
                       id, "cancelled")

PatientsController_findOne(id) ==
    /\ req.pc = "handler" /\ req.route = "patients"
    /\ req' = [req EXCEPT !.pc = "done"]
    /\ LET r == PatientsService_findOne(id, req.tenant.id) IN
       res' = Response("patients.findOne", r, 0, patients[id].tenantId, None, None,
                       FALSE)
    /\ UNCHANGED storeVars /\ Idle

\* GET /api/roles: RolesController.findAll, a controller under
\* UseGuards(JwtAuthGuard) with no RequireTenant and no RequirePermissions
RolesController_findAll ==
    /\ req.pc = "handler" /\ req.route = "roles"
    /\ req' = [req EXCEPT !.pc = "done"]
    /\ res' = [NoRes EXCEPT !.op = "roles.findAll", !.status = "ok"]
    /\ UNCHANGED storeVars /\ Idle

\* PATCH /api/tenants/:id/deactivate: TenantsController.deactivate, marked
\* RequirePermissions('tenant:update') under UseGuards(JwtAuthGuard)
TenantsController_deactivate(id) ==
    /\ req.pc = "handler" /\ req.route = "tenants"
    /\ req' = [req EXCEPT !.pc = "done"]
    /\ TenantsService_setActive(id, FALSE)
    /\ res' = [NoRes EXCEPT !.op = "tenants.deactivate", !.status = "ok",
                            !.wrote = TRUE]
    /\ UNCHANGED <<users, patients, appointments>> /\ Idle

\* PATCH /api/tenants/:id/deactivate and /activate, by an administrator
Deactivate(id) ==
    /\ TenantsService_setActive(id, FALSE)
    /\ authRes' = NoAuthRes
    /\ UNCHANGED <<users, patients, appointments, req, res, now, ticks, issued,
                   lastIssued, loggedOut, entityVars, nodeEnv, accessVars, calls>>

Activate(id) ==
    /\ TenantsService_setActive(id, TRUE)
    /\ authRes' = NoAuthRes
    /\ UNCHANGED <<users, patients, appointments, req, res, now, ticks, issued,
                   lastIssued, loggedOut, entityVars, nodeEnv, accessVars, calls>>

InitPipeline ==
    /\ InitStore /\ InitAuthIdle /\ InitEntityIdle
    /\ nodeEnv \in {"production", "development"}
    /\ req = IdleReq
    /\ res = NoRes
    /\ InitAccessIdle
    /\ calls = NoCalls

NextPipeline ==
    \/ \E route \in Routes : Receive(route)
    \/ \E host \in Hosts : MiddlewareSubdomain(host)
    \/ \E xId \in {None} \cup TenantRefs, xSub \in {None} \cup TenantRefs :
           MiddlewareHeader(xId, xSub)
    \/ MiddlewareToken
    \/ \E q \in {None} \cup TenantRefs : MiddlewareQuery(q)
    \/ \E bearer \in Bearers : AuthGuardStep(bearer)
    \/ TenantGuardStep
    \/ \E dto \in HttpCreateDtos : AppointmentsController_create(dto)
    \/ AppointmentsController_findAll
    \/ \E id \in AppointmentIds : AppointmentsController_findOne(id)
    \/ \E id \in AppointmentIds, dto \in HttpUpdateDtos :
           AppointmentsController_update(id, dto)
    \/ \E id \in AppointmentIds, st \in RouteStatuses :
           AppointmentsController_updateStatus(id, st)
    \/ \E id \in AppointmentIds : AppointmentsController_cancel(id)
    \/ \E id \in AppointmentIds : AppointmentsController_remove(id)
    \/ \E id \in PatientIds : PatientsController_findOne(id)
    \/ RolesController_findAll
    \/ \E id \in TenantIds : TenantsController_deactivate(id)
    \/ \E id \in TenantIds : Deactivate(id)
    \/ \E id \in TenantIds : Activate(id)

SpecPipeline == InitPipeline /\ [][NextPipeline]_vars

\* the pipeline with the handlers that write no appointment: what the
\* middleware and the guards do does not depend on the calendar
NextGuards ==
    \/ \E route \in Routes : Receive(route)
    \/ \E host \in Hosts : MiddlewareSubdomain(host)
    \/ \E xId \in {None} \cup TenantRefs, xSub \in {None} \cup TenantRefs :
           MiddlewareHeader(xId, xSub)
    \/ MiddlewareToken
    \/ \E q \in {None} \cup TenantRefs : MiddlewareQuery(q)
    \/ \E bearer \in Bearers : AuthGuardStep(bearer)
    \/ TenantGuardStep
    \/ AppointmentsController_findAll
    \/ \E id \in PatientIds : PatientsController_findOne(id)
    \/ RolesController_findAll
    \/ \E id \in TenantIds : TenantsController_deactivate(id)
    \/ \E id \in TenantIds : Deactivate(id)
    \/ \E id \in TenantIds : Activate(id)

SpecGuards == InitPipeline /\ [][NextGuards]_vars

\* C1: on a tenant-required patient or appointment route, every record the
\* handler reads, returns or modifies for a user of tenant A belongs to
\* tenant A, whatever tenant signals the request carries; addressing a
\* record of another tenant yields NotFound and writes nothing.
C1_TenantIsolation ==
    (req.pc = "done" /\ res.op \notin {"none", "middleware", "JwtAuthGuard", "TenantGuard"}
        /\ RouteOf(req.route).requireTenant)
    => /\ \A r \in res.records : r.tenantId = req.user.tenantId
       /\ (res.targetTenant # None /\ res.targetTenant # req.user.tenantId)
             => (res.status = "NotFound" /\ ~res.wrote)

(***************************************************************************)
(* AuthService (tenant-aware).  Each operation yields its outcome, the     *)
(* user table afterwards and the tokens it returns.                        *)
(***************************************************************************)
\* new Date(Date.now() + 7 * 24 * 60 * 60 * 1000), in seconds
RefreshWindow == 604800

AuthResult(status, message, table, userId, refreshToken) ==
    [status |-> status, message |-> message, table |-> table, userId |-> userId,
     refreshToken |-> refreshToken,
     accessToken |-> IF refreshToken = NoToken THEN NoToken
                     ELSE [refreshToken EXCEPT !.exp = refreshToken.iat + AccessTtl]]

AuthFail(status, message) == AuthResult(status, message, users, 0, NoToken)

ExistingUsers == {id \in UserIds : users[id].exists}
FreeUserIds == UserIds \ ExistingUsers

\* sign both tokens for the user row and store the refresh token
IssueTokens(table, id) ==
    LET refreshToken == Sign(id, table[id], now, RefreshTtl) IN
    AuthResult("ok", None,
               [table EXCEPT ![id].refreshToken = refreshToken,
                             ![id].refreshTokenExpiresAt = now + RefreshWindow],
               id, refreshToken)

\* mutant: no duplicate check before the insert
AuthService_registerNoDuplicateCheck(email, password, roleId, tenantId) ==
    LET tenant == TenantsService_findOne(tenantId) IN
    IF tenant.kind # "ok" THEN AuthFail(tenant.kind, tenant.message)
    ELSE IF ~tenant.value.isActive THEN AuthFail("BadRequest", "Tenant is not active")
    ELSE IF roleId \notin RoleIds THEN AuthFail("BadRequest", "Invalid role ID")
    ELSE LET id == CHOOSE i \in FreeUserIds : \A j \in FreeUserIds : i <= j IN
         IssueTokens([users EXCEPT ![id] = UserRow(email, password, roleId, tenantId)],
                     id)

AuthService_register(email, password, roleId, tenantId) ==
    LET tenant == TenantsService_findOne(tenantId) IN
    IF tenant.kind # "ok" THEN AuthFail(tenant.kind, tenant.message)
    ELSE IF ~tenant.value.isActive THEN AuthFail("BadRequest", "Tenant is not active")
    ELSE IF \E u \in ExistingUsers :
                users[u].email = email /\ users[u].tenantId = tenantId
    THEN AuthFail("Conflict", "User with this email already exists in this tenant")
    ELSE IF roleId \notin RoleIds THEN AuthFail("BadRequest", "Invalid role ID")
    ELSE LET id == CHOOSE i \in FreeUserIds : \A j \in FreeUserIds : i <= j IN
         IssueTokens([users EXCEPT ![id] = UserRow(email, password, roleId, tenantId)],
                     id)

\* the tenant hint of login: Ok(NoTenant) without a hint
resolveLoginTenant(tenant) ==
    IF tenant = None THEN Ok(NoTenant)
    ELSE LET r == resolveTenantRef(tenant) IN
         IF r.kind # "ok" \/ ~r.value.isActive
         THEN Throw("Unauthorized", "Invalid tenant")
         ELSE r

\* the rows prisma.user.findFirst({ where: whereClause }) can return
loginCandidates(email, tenantId) ==
    {u \in ExistingUsers :
        /\ users[u].email = email /\ users[u].isActive
        /\ (tenantId # None => users[u].tenantId = tenantId)}

\* login; found is the row findFirst returned, 0 for null
AuthService_login(email, password, tenant, found) ==
    LET t == resolveLoginTenant(tenant) IN
    IF t.kind # "ok" THEN AuthFail(t.kind, t.message)
    ELSE IF found = 0 THEN AuthFail("Unauthorized", "Invalid credentials")
    ELSE IF ~bcryptCompare(password, users[found].password)
    THEN AuthFail("Unauthorized", "Invalid credentials")
    ELSE IF ~tenants[users[found].tenantId].isActive
    THEN AuthFail("Unauthorized", "Tenant is not active")
    ELSE IssueTokens(users, found)

\* mutant: the presented token is not compared with the stored one
AuthService_refreshTokenNoMatch(refreshToken) ==
    IF ~jwtVerify(refreshToken, now)
    THEN AuthFail("Unauthorized", "Invalid refresh token")
    ELSE IF ~(refreshToken.sub \in ExistingUsers /\ users[refreshToken.sub].isActive)
    THEN AuthFail("Unauthorized", "Invalid refresh token")
    ELSE IssueTokens(users, refreshToken.sub)

AuthService_refreshToken(refreshToken) ==
    IF ~jwtVerify(refreshToken, now)
    THEN AuthFail("Unauthorized", "Invalid refresh token")
    ELSE IF ~(refreshToken.sub \in ExistingUsers /\ users[refreshToken.sub].isActive)
    THEN AuthFail("Unauthorized", "Invalid refresh token")
    ELSE LET user == users[refreshToken.sub] IN
         IF \/ user.refreshToken # refreshToken
            \/ user.refreshTokenExpiresAt = NoDate
            \/ user.refreshTokenExpiresAt < now
         THEN AuthFail("Unauthorized", "Invalid refresh token")
         ELSE IssueTokens(users, refreshToken.sub)

\* mutant: logout leaves the stored refresh token in place
AuthService_logoutKeepToken(userId) ==
    IF userId \notin ExistingUsers
    THEN AuthFail("InternalServerError", "Logout failed")
    ELSE AuthResult("ok", "Logged out successfully", users, userId, NoToken)

AuthService_logout(userId) ==
    IF userId \notin ExistingUsers
    THEN AuthFail("InternalServerError", "Logout failed")
    ELSE AuthResult("ok", "Logged out successfully",
                    [users EXCEPT ![userId].refreshToken = NoToken,
                                  ![userId].refreshTokenExpiresAt = NoDate],
                    userId, NoToken)

(***************************************************************************)
(* The authentication operations as a state machine over the user table,   *)
(* the tenants and the clock.                                              *)
(***************************************************************************)
AuthIdle == UNCHANGED <<tenants, patients, appointments, now, ticks, nodeEnv, accessVars, calls,
                        req, res, entityVars>>

\* the access token issued together with a refresh token
accessOf(refreshToken) == [refreshToken EXCEPT !.exp = refreshToken.iat + AccessTtl]

\* an access token of the first user signed before tenants were introduced:
\* its payload carries no tenantId
LegacyToken ==
    [sub |-> 1, email |-> "vet@pawdex.com", roleId |-> "veterinarian",
     tenantId |-> None, iat |-> 0, exp |-> AccessTtl]

\* every token the service has handed out, one of the legacy service, and
\* two that were never signed
IssuedRefreshTokens == UNION {issued[u] : u \in UserIds}
PresentableTokens ==
    IssuedRefreshTokens \cup {accessOf(t) : t \in IssuedRefreshTokens}
        \cup {Garbage, NoToken, LegacyToken}

AuthApply(op, r, presented, taken) ==
    /\ users' = r.table
    /\ authRes' = [op |-> op, status |-> r.status, message |-> r.message,
                   userId |-> r.userId, refreshToken |-> r.refreshToken,
                   presented |-> presented, taken |-> taken,
                   wrote |-> r.table # users]
    /\ issued' = IF r.refreshToken = NoToken THEN issued
                 ELSE [issued EXCEPT ![r.userId] = @ \cup {r.refreshToken}]
    /\ lastIssued' = IF r.refreshToken = NoToken THEN lastIssued
                     ELSE [lastIssued EXCEPT ![r.userId] = r.refreshToken]
    /\ loggedOut' = IF r.refreshToken # NoToken
                    THEN [loggedOut EXCEPT ![r.userId] = FALSE]
                    ELSE IF op = "logout" /\ r.status = "ok"
                         THEN [loggedOut EXCEPT ![r.userId] = TRUE]
                         ELSE loggedOut
    /\ AuthIdle

emailTaken(email, tenantId) ==
    \E u \in ExistingUsers : users[u].email = email /\ users[u].tenantId = tenantId

\* POST /api/auth/register
Register(email, password, roleId, tenantId) ==
    /\ FreeUserIds # {}
    /\ AuthApply("register", AuthService_register(email, password, roleId, tenantId),
                 NoToken, emailTaken(email, tenantId))

\* POST /api/auth/login; found is the row findFirst returns
Login(email, password, tenant, found) ==
    /\ LET t == resolveLoginTenant(tenant) IN
       \/ t.kind # "ok" /\ found = 0
       \/ /\ t.kind = "ok"
          /\ IF loginCandidates(email, t.value.id) = {} THEN found = 0
             ELSE found \in loginCandidates(email, t.value.id)
    /\ AuthApply("login", AuthService_login(email, password, tenant, found),
                 NoToken, FALSE)

\* POST /api/auth/refresh
Refresh(refreshToken) ==
    AuthApply("refresh", AuthService_refreshToken(refreshToken), refreshToken,
              FALSE)

\* POST /api/auth/logout
Logout(userId) ==
    AuthApply("logout", AuthService_logout(userId), NoToken, FALSE)

\* a protected request: the bearer token goes through verify
Verify(token) ==
    /\ LET r == JwtAuthGuard_canActivate(RouteOf("appointments"), token) IN
       authRes' = [NoAuthRes EXCEPT !.op = "verify", !.status = r.kind,
                                    !.presented = token]
    /\ UNCHANGED <<users, issued, lastIssued, loggedOut>>
    /\ AuthIdle

\* time passes: an access-token lifetime, a refresh-token lifetime
ClockSteps == {AccessTtl, RefreshTtl}

\* tenant hints a login can carry: none, an id, a subdomain of either
\* tenant, a subdomain nobody has
LoginHints == {None, TenantA, "happy-paws", "default", "unknown"}

Advance(d) ==
    /\ ticks < MaxTicks
    /\ now' = now + d
    /\ ticks' = ticks + 1
    /\ authRes' = NoAuthRes
    /\ UNCHANGED <<storeVars, issued, lastIssued, loggedOut, nodeEnv, accessVars, calls, req, res,
                   entityVars>>

\* one user registered in the first tenant, active or not; the other rows free
InitAuth ==
    /\ InitTenants
    /\ InitPatients
    /\ \E active \in BOOLEAN :
         users = [id \in UserIds |->
                    IF id = 1
                    THEN [UserRow("vet@pawdex.com", "pw1", "veterinarian", TenantA)
                            EXCEPT !.isActive = active]
                    ELSE NoUser]
    /\ appointments = [id \in AppointmentIds |-> NoAppointment]
    /\ InitAuthIdle /\ InitEntityIdle
    /\ nodeEnv = "production"
    /\ req = IdleReq
    /\ res = NoRes
    /\ InitAccessIdle
    /\ calls = NoCalls

NextAuth ==
    \/ \E email \in Emails, password \in Passwords,
          roleId \in RoleIds \cup {"no-such-role"},
          tenantId \in TenantIds \cup {UnknownCuid} :
           Register(email, password, roleId, tenantId)
    \/ \E email \in Emails, password \in Passwords,
          tenant \in LoginHints, found \in {0} \cup UserIds :
           Login(email, password, tenant, found)
    \/ \E token \in PresentableTokens : Refresh(token)
    \/ \E userId \in UserIds : Logout(userId)
    \/ \E token \in PresentableTokens : Verify(token)
    \/ \E d \in ClockSteps : Advance(d)
    \/ \E id \in TenantIds : Deactivate(id)
    \/ \E id \in TenantIds : Activate(id)

SpecAuth == InitAuth /\ [][NextAuth]_vars

(***************************************************************************)
(* Properties of the authentication operations.                            *)
(***************************************************************************)
\* the outcome of verify for an access token
verify(token) == JwtAuthGuard_canActivate(RouteOf("appointments"), token)

tenantActive(u) == tenants[users[u].tenantId].isActive

C7_LogoutRevokesRefreshTokens ==
    \A u \in ExistingUsers :
        loggedOut[u]
        => \A t \in PresentableTokens :
              t.sub = u => AuthService_refreshToken(t).status = "Unauthorized"

\* after a logout, the unexpired token that was the stored one is refused
C7_Witness ==
    /\ authRes.op = "refresh" /\ authRes.status = "Unauthorized"
    /\ authRes.presented.sub \in ExistingUsers
    /\ loggedOut[authRes.presented.sub]
    /\ users[authRes.presented.sub].isActive
    /\ authRes.presented = lastIssued[authRes.presented.sub]
    /\ jwtVerify(authRes.presented, now)

C9_GenericLoginFailure ==
    (authRes.op = "login" /\ authRes.status # "ok")
    => /\ authRes.status = "Unauthorized"
       /\ authRes.message = "Invalid credentials"
       /\ ~authRes.wrote

\* C10: verify of a correctly signed, unexpired access token succeeds only
\* if the subject exists and is active, the token's tenant id (when
\* present) equals the subject's tenant id, and the subject's tenant is
\* active; while a tenant is inactive every verify for its users fails with
\* Unauthenticated.
C10_VerifyChecksSubjectAndTenant ==
    /\ \A t \in PresentableTokens :
          (jwtVerify(t, now) /\ verify(t).kind = "ok")
          => /\ t.sub \in ExistingUsers /\ users[t.sub].isActive
             /\ (t.tenantId # None => t.tenantId = users[t.sub].tenantId)
             /\ tenantActive(t.sub)
    /\ \A u \in ExistingUsers :
          ~tenantActive(u)
          => \A t \in PresentableTokens :
                t.sub = u => verify(t).kind = "Unauthorized"
    /\ (authRes.op = "verify" /\ authRes.status = "ok")
          => /\ users[authRes.presented.sub].isActive
             /\ tenantActive(authRes.presented.sub)

\* an unexpired access token of an active user was refused while the
\* user's tenant was inactive
C10_Witness ==
    /\ authRes.op = "verify" /\ authRes.status = "Unauthorized"
    /\ jwtVerify(authRes.presented, now)
    /\ authRes.presented.sub \in ExistingUsers
    /\ users[authRes.presented.sub].isActive
    /\ authRes.presented.tenantId = users[authRes.presented.sub].tenantId
    /\ ~tenantActive(authRes.presented.sub)

(***************************************************************************)
(* PermissionsService and the role assignments of RolesService.            *)
(***************************************************************************)
activePermissions == {n \in PermissionNames : permissions[n].isActive}

\* mutant: no expansion for a role that holds system.admin
PermissionsService_getUserPermissionsAssigned(userId) ==
    IF userId \notin ExistingUsers THEN {}
    ELSE {n \in rolePermissions[users[userId].roleId] : permissions[n].isActive}

PermissionsService_getUserPermissions(userId) ==
    IF userId \notin ExistingUsers THEN {}
    ELSE LET userPermissions == rolePermissions[users[userId].roleId] IN
         IF SystemAdmin \in userPermissions
         THEN activePermissions
         ELSE {n \in userPermissions : permissions[n].isActive}

\* mutant: only the exact name and system.admin are looked for
PermissionsService_hasPermissionExact(userId, requiredPermission) ==
    LET userPermissions == PermissionsService_getUserPermissions(userId) IN
    requiredPermission \in userPermissions \/ SystemAdmin \in userPermissions

PermissionsService_hasPermission(userId, requiredPermission) ==
    LET userPermissions == PermissionsService_getUserPermissions(userId) IN
    IF requiredPermission \in userPermissions THEN TRUE
    ELSE IF SystemAdmin \in userPermissions THEN TRUE
    ELSE IF endsWithOwn(requiredPermission)
         THEN replaceOwn(requiredPermission) \in userPermissions
         ELSE FALSE

AccessIdle == UNCHANGED <<storeVars, authVars, entityVars, nodeEnv, req, res, calls>>

\* PermissionsService.update(id, { isActive }) and remove(id)
PermissionsUpdate(name, isActive) ==
    /\ permissions' = [permissions EXCEPT ![name].isActive = isActive]
    /\ accessRes' = [NoAccessRes EXCEPT !.op = "permissions.update"]
    /\ UNCHANGED <<rolePermissions, featureFlags, roleFeatureFlags>>
    /\ AccessIdle

PermissionsRemove(name) ==
    /\ permissions' = [permissions EXCEPT ![name].isActive = FALSE]
    /\ accessRes' = [NoAccessRes EXCEPT !.op = "permissions.remove"]
    /\ UNCHANGED <<rolePermissions, featureFlags, roleFeatureFlags>>
    /\ AccessIdle

\* RolesService.assignPermissions: every id must be an active permission
AssignPermissions(roleId, names) ==
    /\ rolePermissions' = IF names \subseteq activePermissions
                          THEN [rolePermissions EXCEPT ![roleId] = names]
                          ELSE rolePermissions
    /\ accessRes' = [NoAccessRes EXCEPT !.op = "roles.assignPermissions"]
    /\ UNCHANGED <<permissions, featureFlags, roleFeatureFlags>>
    /\ AccessIdle

\* RolesService.removePermission
RemovePermission(roleId, name) ==
    /\ rolePermissions' = [rolePermissions EXCEPT ![roleId] = @ \ {name}]
    /\ accessRes' = [NoAccessRes EXCEPT !.op = "roles.removePermission"]
    /\ UNCHANGED <<permissions, featureFlags, roleFeatureFlags>>
    /\ AccessIdle

GetUserPermissions(userId) ==
    /\ accessRes' = [NoAccessRes EXCEPT
                        !.op = "getUserPermissions", !.userId = userId,
                        !.names = PermissionsService_getUserPermissions(userId)]
    /\ UNCHANGED <<permissions, rolePermissions, featureFlags, roleFeatureFlags>>
    /\ AccessIdle

HasPermission(userId, requiredPermission) ==
    /\ accessRes' = [NoAccessRes EXCEPT
                        !.op = "hasPermission", !.userId = userId,
                        !.required = requiredPermission,
                        !.names = PermissionsService_getUserPermissions(userId),
                        !.granted = PermissionsService_hasPermission(
                                        userId, requiredPermission)]
    /\ UNCHANGED <<permissions, rolePermissions, featureFlags, roleFeatureFlags>>
    /\ AccessIdle

InitPermissions ==
    /\ InitStore /\ InitAuthIdle /\ InitEntityIdle
    /\ nodeEnv = "production"
    /\ req = IdleReq
    /\ res = NoRes
    /\ InitAccessIdle
    /\ calls = NoCalls

NextPermissions ==
    \/ \E n \in PermissionNames, b \in BOOLEAN : PermissionsUpdate(n, b)
    \/ \E n \in PermissionNames : PermissionsRemove(n)
    \/ \E r \in RoleIds, names \in SUBSET PermissionNames : AssignPermissions(r, names)
    \/ \E r \in RoleIds, n \in PermissionNames : RemovePermission(r, n)
    \/ \E u \in {0} \cup UserIds : GetUserPermissions(u)
    \/ \E u \in {0} \cup UserIds, n \in RequiredNames : HasPermission(u, n)

SpecPermissions == InitPermissions /\ [][NextPermissions]_vars

\* C11: for every user whose role is assigned system.admin and every active
\* permission p of the catalog, hasPermission(user, p) is true whether or
\* not p is assigned to the role, and getUserPermissions returns exactly
\* the set of all active permission names.
C11_SystemAdminHoldsEveryActivePermission ==
    /\ \A u \in ExistingUsers :
          SystemAdmin \in rolePermissions[users[u].roleId]
          => /\ \A p \in activePermissions : PermissionsService_hasPermission(u, p)
             /\ PermissionsService_getUserPermissions(u) = activePermissions
    /\ ( /\ accessRes.op = "getUserPermissions"
         /\ accessRes.userId \in ExistingUsers
         /\ SystemAdmin \in rolePermissions[users[accessRes.userId].roleId] )
          => accessRes.names = activePermissions

\* a user of a role that holds system.admin was granted an active
\* permission that is not assigned to the role
C11_Witness ==
    /\ accessRes.op = "hasPermission" /\ accessRes.granted
    /\ accessRes.userId \in ExistingUsers
    /\ SystemAdmin \in rolePermissions[users[accessRes.userId].roleId]
    /\ accessRes.required \in activePermissions
    /\ accessRes.required \notin rolePermissions[users[accessRes.userId].roleId]

\* C12: ownership scoping is one-directional.  A user whose effective set
\* contains r.a satisfies hasPermission(user, 'r.a:own'); a user whose
\* effective set contains r.a:own but neither r.a nor system.admin does not
\* satisfy hasPermission(user, 'r.a').  A role holding appointments.read and
\* appointments.update is granted appointments.read:own and denied
\* appointments.delete.
C12_OwnershipOneDirectional ==
    \A u \in ExistingUsers :
        LET effective == PermissionsService_getUserPermissions(u) IN
        /\ \A n \in RequiredNames :
              (~endsWithOwn(n) /\ n \in effective)
              => PermissionsService_hasPermission(u, [n EXCEPT !.own = TRUE])
        /\ \A n \in RequiredNames :
              ( /\ endsWithOwn(n) /\ n \in effective
                /\ replaceOwn(n) \notin effective
                /\ SystemAdmin \notin effective )
              => ~PermissionsService_hasPermission(u, replaceOwn(n))
        /\ effective = {Perm("appointments.read", FALSE),
                        Perm("appointments.update", FALSE)}
              => /\ PermissionsService_hasPermission(u, Perm("appointments.read", TRUE))
                 /\ ~PermissionsService_hasPermission(u, Perm("appointments.delete", FALSE))

\* an ':own' permission was granted through the general permission alone
C12_Witness ==
    /\ accessRes.op = "hasPermission" /\ accessRes.granted
    /\ endsWithOwn(accessRes.required)
    /\ accessRes.required \notin accessRes.names
    /\ SystemAdmin \notin accessRes.names
    /\ replaceOwn(accessRes.required) \in accessRes.names

(***************************************************************************)
(* FeatureFlagsService.                                                    *)
(***************************************************************************)
UnknownFlag == "unknown_flag"
UnknownRole == "no-such-role"

\* prisma.featureFlag.findUnique({ where: { key } })
findFlag(key) == IF key \in FlagKeys THEN featureFlags[key] ELSE NoFlag

\* featureFlag.roleFlags.find(rf => rf.roleId === roleId)
roleAssignment(key, roleId) ==
    IF roleId \in RoleIds /\ key \in FlagKeys
    THEN roleFeatureFlags[roleId][key] ELSE "none"

\* mutant: a disabled assignment of the role switches a global flag off
FeatureFlagsService_isFeatureFlagEnabledRoleFirst(featureFlagKey, roleId) ==
    LET featureFlag == findFlag(featureFlagKey) IN
    IF ~featureFlag.exists \/ ~featureFlag.isActive THEN FALSE
    ELSE IF roleId # None /\ roleAssignment(featureFlagKey, roleId) = "disabled"
    THEN FALSE
    ELSE IF featureFlag.isGlobal THEN TRUE
    ELSE IF roleId = None THEN FALSE
    ELSE roleAssignment(featureFlagKey, roleId) = "enabled"

FeatureFlagsService_isFeatureFlagEnabled(featureFlagKey, roleId) ==
    LET featureFlag == findFlag(featureFlagKey) IN
    IF ~featureFlag.exists \/ ~featureFlag.isActive THEN FALSE
    ELSE IF featureFlag.isGlobal THEN TRUE
    ELSE IF roleId = None THEN FALSE
    ELSE roleAssignment(featureFlagKey, roleId) = "enabled"

FlagIdle ==
    /\ UNCHANGED <<permissions, rolePermissions>>
    /\ AccessIdle

\* FeatureFlagsService.create: the key must be free
FlagCreate(key, isActive, isGlobal) ==
    /\ featureFlags' = IF featureFlags[key].exists THEN featureFlags
                       ELSE [featureFlags EXCEPT ![key] =
                               [exists |-> TRUE, isActive |-> isActive,
                                isGlobal |-> isGlobal]]
    /\ accessRes' = [NoAccessRes EXCEPT !.op = "featureFlags.create"]
    /\ UNCHANGED roleFeatureFlags
    /\ FlagIdle

\* FeatureFlagsService.update of the two switches
FlagUpdate(key, isActive, isGlobal) ==
    /\ featureFlags' = IF ~featureFlags[key].exists THEN featureFlags
                       ELSE [featureFlags EXCEPT ![key].isActive = isActive,
                                                 ![key].isGlobal = isGlobal]
    /\ accessRes' = [NoAccessRes EXCEPT !.op = "featureFlags.update"]
    /\ UNCHANGED roleFeatureFlags
    /\ FlagIdle

\* FeatureFlagsService.assignToRole: role and flag must exist
AssignToRole(roleId, key, isEnabled) ==
    /\ roleFeatureFlags' =
          IF roleId \in RoleIds /\ featureFlags[key].exists
          THEN [roleFeatureFlags EXCEPT ![roleId][key] =
                   IF isEnabled THEN "enabled" ELSE "disabled"]
          ELSE roleFeatureFlags
    /\ accessRes' = [NoAccessRes EXCEPT !.op = "featureFlags.assignToRole"]
    /\ UNCHANGED featureFlags
    /\ FlagIdle

\* FeatureFlagsService.removeFromRole: the assignment must exist
RemoveFromRole(roleId, key) ==
    /\ roleFeatureFlags' =
          IF roleId \in RoleIds
          THEN [roleFeatureFlags EXCEPT ![roleId][key] = "none"]
          ELSE roleFeatureFlags
    /\ accessRes' = [NoAccessRes EXCEPT !.op = "featureFlags.removeFromRole"]
    /\ UNCHANGED featureFlags
    /\ FlagIdle

IsFeatureFlagEnabled(key, roleId) ==
    /\ accessRes' = [NoAccessRes EXCEPT
                        !.op = "isFeatureFlagEnabled", !.key = key,
                        !.roleId = roleId,
                        !.granted = FeatureFlagsService_isFeatureFlagEnabled(key, roleId)]
    /\ UNCHANGED <<featureFlags, roleFeatureFlags>>
    /\ FlagIdle

\* a subject whose user row has been deleted since its token was issued
DeletedUser == 0

\* the exceptions a feature-flag check can end in and the status each one
\* carries; "Error" is a rejected persistence call, not an HttpException
HttpExceptions ==
    [UnauthorizedException |-> 401, ForbiddenException |-> 403,
     NotFoundException |-> 404]
HttpExceptionNames == DOMAIN HttpExceptions

\* GlobalExceptionFilter.catch: the status written to the response
GlobalExceptionFilter_catch(exception) ==
    IF exception \in HttpExceptionNames THEN HttpExceptions[exception]
    ELSE 500

\* prisma.user.findUnique({ where: { id: userId } })
findUserById(userId) == IF userId \in UserIds THEN users[userId] ELSE NoUser

\* mutant: the role's assignment is read without the flag's active switch
FeatureFlagsService_getUserFeatureFlagsAnyRoleFlag(userId) ==
    LET user == findUserById(userId) IN
    IF ~user.exists THEN [thrown |-> "NotFoundException", flags |-> {}]
    ELSE [thrown |-> None,
          flags |-> {k \in FlagKeys : featureFlags[k].exists
                                        /\ featureFlags[k].isActive
                                        /\ featureFlags[k].isGlobal}
                    \cup {k \in FlagKeys :
                            roleAssignment(k, user.roleId) = "enabled"}]

\* FeatureFlagsService.getUserFeatureFlags: the active global flags and the
\* active flags the user's role has an enabled assignment of
FeatureFlagsService_getUserFeatureFlags(userId) ==
    LET user == findUserById(userId) IN
    IF ~user.exists THEN [thrown |-> "NotFoundException", flags |-> {}]
    ELSE [thrown |-> None,
          flags |-> {k \in FlagKeys : featureFlags[k].exists
                                        /\ featureFlags[k].isActive
                                        /\ featureFlags[k].isGlobal}
                    \cup {k \in FlagKeys :
                            /\ roleAssignment(k, user.roleId) = "enabled"
                            /\ featureFlags[k].exists
                            /\ featureFlags[k].isActive}]

\* FeatureFlagsService.hasFeatureFlag: userFlags.includes(featureFlagKey)
FeatureFlagsService_hasFeatureFlag(userId, featureFlagKey) ==
    LET userFlags == FeatureFlagsService_getUserFeatureFlags(userId) IN
    [thrown |-> userFlags.thrown,
     has |-> userFlags.thrown = None /\ featureFlagKey \in userFlags.flags]

\* FeatureFlagsGuard.canActivate for a route requiring requiredFlags, a
\* request with or without req.user, and a store that answers or rejects
\* (fault) the lookup; the guard catches nothing
FeatureFlagsGuard_canActivate(requiredFlags, authenticated, userId, fault) ==
    IF requiredFlags = {} THEN [thrown |-> None, pass |-> TRUE]
    ELSE IF ~authenticated
    THEN [thrown |-> "ForbiddenException", pass |-> FALSE]
    ELSE IF fault THEN [thrown |-> "Error", pass |-> FALSE]
    ELSE IF \E k \in requiredFlags :
               FeatureFlagsService_hasFeatureFlag(userId, k).thrown # None
    THEN [thrown |-> "NotFoundException", pass |-> FALSE]
    ELSE IF \E k \in requiredFlags :
               ~FeatureFlagsService_hasFeatureFlag(userId, k).has
    THEN [thrown |-> "ForbiddenException", pass |-> FALSE]
    ELSE [thrown |-> None, pass |-> TRUE]

\* a request reaches FeatureFlagsGuard; what it throws leaves through the
\* exception filter, and the handler runs only when the guard passes
FeatureFlagsGuardCall(requiredFlags, authenticated, userId, fault) ==
    LET g == FeatureFlagsGuard_canActivate(requiredFlags, authenticated,
                                           userId, fault) IN
    /\ accessRes' = [NoAccessRes EXCEPT
                        !.op = "FeatureFlagsGuard", !.userId = userId,
                        !.names = requiredFlags, !.granted = g.pass,
                        !.thrown = g.thrown,
                        !.status = IF g.thrown = None THEN 200
                                   ELSE GlobalExceptionFilter_catch(g.thrown)]
    /\ UNCHANGED <<featureFlags, roleFeatureFlags>>
    /\ FlagIdle

\* FeatureFlagsService.hasFeatureFlag called for a user
HasFeatureFlag(userId, key) ==
    LET h == FeatureFlagsService_hasFeatureFlag(userId, key) IN
    /\ accessRes' = [NoAccessRes EXCEPT
                        !.op = "hasFeatureFlag", !.userId = userId,
                        !.key = key, !.granted = h.has, !.thrown = h.thrown]
    /\ UNCHANGED <<featureFlags, roleFeatureFlags>>
    /\ FlagIdle

InitFeatureFlags ==
    /\ InitStore /\ InitAuthIdle /\ InitEntityIdle
    /\ nodeEnv = "production"
    /\ req = IdleReq
    /\ res = NoRes
    /\ InitAccessIdle
    /\ calls = NoCalls

NextFeatureFlags ==
    \/ \E k \in FlagKeys, a \in BOOLEAN, g \in BOOLEAN : FlagCreate(k, a, g)
    \/ \E k \in FlagKeys, a \in BOOLEAN, g \in BOOLEAN : FlagUpdate(k, a, g)
    \/ \E r \in RoleIds \cup {UnknownRole}, k \in FlagKeys, e \in BOOLEAN :
           AssignToRole(r, k, e)
    \/ \E r \in RoleIds \cup {UnknownRole}, k \in FlagKeys : RemoveFromRole(r, k)
    \/ \E k \in FlagKeys \cup {UnknownFlag},
          r \in {None} \cup RoleIds \cup {UnknownRole} : IsFeatureFlagEnabled(k, r)
    \/ \E u \in UserIds \cup {DeletedUser}, k \in FlagKeys \cup {UnknownFlag} :
           HasFeatureFlag(u, k)
    \/ \E f \in SUBSET FlagKeys, a \in BOOLEAN,
          u \in UserIds \cup {DeletedUser}, x \in BOOLEAN :
           FeatureFlagsGuardCall(f, a, u, x)

SpecFeatureFlags == InitFeatureFlags /\ [][NextFeatureFlags]_vars

\* C13: isFeatureFlagEnabled(key, roleId?) is true exactly when the flag
\* exists and is active and either it is global (whatever the role's
\* assignment, a disabled one included) or a roleId is supplied and that
\* role has an assignment with isEnabled = true.
C13_FeatureFlagEnabledExactly ==
    /\ \A k \in FlagKeys \cup {UnknownFlag},
          r \in {None} \cup RoleIds \cup {UnknownRole} :
          FeatureFlagsService_isFeatureFlagEnabled(k, r)
          <=> /\ k \in FlagKeys
              /\ featureFlags[k].exists /\ featureFlags[k].isActive
              /\ \/ featureFlags[k].isGlobal
                 \/ /\ r \in RoleIds
                    /\ roleFeatureFlags[r][k] = "enabled"
    /\ (accessRes.op = "isFeatureFlagEnabled" /\ accessRes.granted)
          => /\ accessRes.key \in FlagKeys
             /\ featureFlags[accessRes.key].isActive
             /\ \/ featureFlags[accessRes.key].isGlobal
                \/ roleAssignment(accessRes.key, accessRes.roleId) = "enabled"

\* a global flag was reported enabled for a role whose assignment of it
\* is disabled
C13_Witness ==
    /\ accessRes.op = "isFeatureFlagEnabled" /\ accessRes.granted
    /\ accessRes.key \in FlagKeys
    /\ featureFlags[accessRes.key].isGlobal
    /\ roleAssignment(accessRes.key, accessRes.roleId) = "disabled"

(***************************************************************************)
(* Properties of the guards and of the tenant resolution.                  *)
(***************************************************************************)
GuardNames == {"JwtAuthGuard", "TenantGuard", "PermissionsGuard", "FeatureFlagsGuard"}

\* the order of the guards: authentication, tenant, permission, feature flag
GuardRank(g) ==
    IF g = "JwtAuthGuard" THEN 1
    ELSE IF g = "TenantGuard" THEN 2
         ELSE IF g = "PermissionsGuard" THEN 3 ELSE 4

\* the controller method of the request has run
handlerRan ==
    req.pc = "done" /\ res.op \notin {"none", "middleware"} \cup GuardNames

C14_State ==
    LET chain == GuardChain(RouteOf(req.route)) IN
    /\ \A j \in 1 .. Len(req.guards) :
          \A k \in 1 .. Len(chain) :
             GuardRank(chain[k]) < GuardRank(req.guards[j])
                => \E i \in 1 .. j - 1 : req.guards[i] = chain[k]
    /\ req.rejectedBy \in GuardNames
          => /\ req.pc = "done"
             /\ req.guards # << >> /\ req.guards[Len(req.guards)] = req.rejectedBy
             /\ res.op = req.rejectedBy /\ ~res.wrote /\ res.records = {}
    /\ (req.pc = "handler" \/ handlerRan)
          => req.rejectedBy = None /\ req.guards = chain

C14_Step ==
    req.rejectedBy # None
        => /\ req' = req \/ (req'.guards = << >> /\ req'.rejectedBy = None)
           /\ req' = req => UNCHANGED <<res, users, patients, appointments>>

C15_RequiredPermissionsEnforced ==
    (req.pc = "done" /\ req.user # NoReqUser
        /\ \E p \in RouteOf(req.route).permissions :
              ~PermissionsService_hasPermission(req.user.id, p))
    => res.status = "Forbidden" /\ ~res.wrote /\ ~handlerRan

\* C16: once the tenant guard has been evaluated for a request, the request
\* is rejected by it exactly when its route is tenant-required and either no
\* tenant context is attached (BadRequest) or the attached tenant is inactive
\* (Forbidden); on any other route it passes whatever the tenant context.
C16_TenantGuard ==
    (\E i \in 1 .. Len(req.guards) : req.guards[i] = "TenantGuard")
    => /\ req.rejectedBy = "TenantGuard"
             <=> ( /\ RouteOf(req.route).requireTenant
                   /\ (req.tenant = NoTenant \/ ~req.tenant.isActive) )
       /\ req.rejectedBy = "TenantGuard"
             => res.status = IF req.tenant = NoTenant THEN "BadRequest"
                             ELSE "Forbidden"

C16_Witness ==
    /\ req.rejectedBy = "TenantGuard" /\ res.status = "Forbidden"
    /\ req.tenant.id = TenantA /\ ~req.tenant.isActive
    /\ req.route = "patients" /\ req.user.tenantId = TenantB

\* the tenant sources in the order of use()
Sources == <<"subdomain", "header", "token", "query">>

\* the tenant id given by the first source that gave one, None if none did
firstYield(yields) ==
    LET matched == {k \in 1 .. Len(Sources) : yields[Sources[k]] \in TenantIds} IN
    IF matched = {} THEN None
    ELSE yields[Sources[CHOOSE k \in matched : \A l \in matched : k <= l]]

\* the middleware has called next() for the request
resolved ==
    /\ req.pc \in {"auth", "tenantGuard", "handler", "done"}
    /\ req.rejectedBy # "middleware"
    /\ ~shouldSkipTenantResolution(RouteOf(req.route).path)

\* C17: the sources are consulted in the order Host subdomain, tenant
\* header, session claim, query parameter, each only if no earlier one gave
\* a tenant, the query parameter only outside production; the tenant
\* attached is the one of the first source that gave one; in production the
\* query parameter is never read and never fails the request.
C17_FirstMatchWins ==
    /\ req.yields.header # Unread => req.yields.subdomain = None
    /\ req.yields.token # Unread => req.yields.header = None
    /\ req.yields.query # Unread
          => req.yields.token = None /\ nodeEnv # "production"
    /\ resolved => req.tenant.id = firstYield(req.yields)
    /\ nodeEnv = "production"
          => /\ req.query = Unread /\ req.yields.query = Unread
             /\ req.rejectedBy = "middleware" => req.yields.header = Failed

C17_Witness ==
    /\ nodeEnv = "development" /\ req.pc = "done" /\ req.rejectedBy = None
    /\ req.yields = [subdomain |-> None, header |-> TenantB, token |-> Unread,
                     query |-> Unread]
    /\ req.tenant.id = TenantB /\ req.route = "patients"

\* header values that name no tenant, whatever the tenants' activity
UnresolvableRefs == {"unknown", UnknownCuid, "default-tenant"}

\* Host values with no subdomain, a reserved one or an unknown one
SilentHosts == Hosts \ {<<"happy-paws", "pawdex", "com">>, <<"default", "pawdex", "com">>}

\* C18: a tenant header that is present and does not resolve ends the
\* request with BadRequest, with no tenant attached and no later source
\* read; an absent header, a Host with no, a reserved or an unknown
\* subdomain, and an absent session claim hand over to the next source.
C18_HeaderHardFailure ==
    /\ req.yields.header = Failed
          => /\ req.header \notin {Unread, None}
             /\ req.pc = "done" /\ req.rejectedBy = "middleware"
             /\ res.status = "BadRequest" /\ req.tenant = NoTenant
             /\ req.yields.token = Unread /\ req.yields.query = Unread
             /\ req.guards = << >>
    /\ req.header \in UnresolvableRefs => req.yields.header = Failed
    /\ req.header = None
          => req.yields.header = None
             /\ (req.pc = "token" \/ req.yields.token # Unread)
    /\ req.host \in SilentHosts
          => req.yields.subdomain = None
             /\ (req.pc = "header" \/ req.yields.header # Unread)
    /\ req.yields.token = None
          => \/ req.pc = "query" \/ req.yields.query # Unread
             \/ (nodeEnv = "production" /\ req.rejectedBy # "middleware")

C18_Witness ==
    /\ req.yields.header = Failed /\ req.header = "unknown"
    /\ req.host = <<"unknown", "pawdex", "com">>
    /\ res.op = "middleware" /\ res.status = "BadRequest"
    /\ req.tenant = NoTenant /\ req.pc = "done"

\* Host values that carry no tenant subdomain
BareHosts == {NoHost, <<"localhost:3001">>, <<"www", "pawdex", "com">>,
              <<"api", "pawdex", "com">>}

\* C19: a request on a tenant-required route whose only tenant signal is
\* the valid access token of a user of an active tenant gets that tenant as
\* its context, is not rejected for its tenant and is served that tenant's
\* rows.
C19_TokenOnlyRequest ==
    ( /\ req.pc = "done" /\ RouteOf(req.route).requireTenant
      /\ req.host \in BareHosts /\ req.header = None
      /\ req.query \in {Unread, None}
      /\ req.user # NoReqUser /\ tenants[req.user.tenantId].isActive
      /\ req.tenant = NoTenant \/ req.tenant.isActive )
    => /\ req.tenant.id = req.user.tenantId
       /\ req.rejectedBy = None
       /\ \A r \in res.records : r.tenantId = req.user.tenantId

(***************************************************************************)
(* TenantsService.remove and the rows that hang on a tenant.               *)
(***************************************************************************)
\* include: { users, patients, appointments } of findUnique
dependents(id) ==
    [users |-> {u \in UserIds : users[u].exists /\ users[u].tenantId = id},
     patients |-> {p \in PatientIds : patients[p].tenantId = id},
     appointments |-> {a \in AppointmentIds :
                          appointments[a].exists /\ appointments[a].tenantId = id}]

\* hasUsers || hasPatients || hasAppointments
hasDependents(id) ==
    \/ Cardinality(dependents(id).users) > 0
    \/ Cardinality(dependents(id).patients) > 0
    \/ Cardinality(dependents(id).appointments) > 0

\* no row of the three tables names the tenant
unreferenced(id) ==
    /\ \A u \in UserIds : users[u].exists => users[u].tenantId # id
    /\ \A p \in PatientIds : patients[p].tenantId # id
    /\ \A a \in AppointmentIds : appointments[a].exists => appointments[a].tenantId # id

without(id) == [t \in DOMAIN tenants \ {id} |-> tenants[t]]

\* mutant: the tenant is deleted without looking at its users, patients
\* and appointments
TenantsService_removeUnchecked(id) ==
    IF id \notin DOMAIN tenants
    THEN Result("NotFound", "Tenant not found", tenants, {})
    ELSE Result("ok", None, without(id), {})

\* TenantsService.remove(id); the table is the tenant table afterwards
TenantsService_remove(id) ==
    IF id \notin DOMAIN tenants
    THEN Result("NotFound", "Tenant not found", tenants, {})
    ELSE IF hasDependents(id)
         THEN Result("BadRequest",
                     "Cannot delete tenant with associated users, patients, or appointments. Please transfer or delete all associated data first.",
                     tenants, {})
         ELSE Result("ok", None, without(id), {})

\* DELETE /api/tenants/:id
TenantsRemove(id) ==
    /\ LET r == TenantsService_remove(id) IN
       /\ tenants' = r.table
       /\ res' = Response("tenants.remove", r, 0, id, None, None, r.table # tenants)
    /\ UNCHANGED <<users, patients, appointments, req, authVars, entityVars,
                   nodeEnv, accessVars, calls>>

\* the seeded tenants; the second one has no user yet, and its patient may
\* not be registered yet either
InitTenantsSpec ==
    /\ InitTenants
    /\ \E t \in TenantIds :
          patients = [id \in PatientIds |->
                        [tenantId |-> IF id = "patient-a" THEN TenantA ELSE t,
                         isActive |-> TRUE]]
    /\ users = [id \in UserIds |->
                  IF id = 1
                  THEN UserRow("vet@pawdex.com", "pw1", "veterinarian", TenantA)
                  ELSE NoUser]
    /\ appointments = [id \in AppointmentIds |-> NoAppointment]
    /\ InitAuthIdle /\ InitEntityIdle
    /\ nodeEnv = "production"
    /\ req = IdleReq
    /\ res = NoRes
    /\ InitAccessIdle
    /\ calls = NoCalls

NextTenants ==
    \/ \E id \in TenantIds \cup {UnknownCuid} : TenantsRemove(id)
    \/ \E e \in Emails, p \in Passwords, r \in RoleIds, t \in TenantIds :
           Register(e, p, r, t)
    \/ \E dto \in HttpCreateDtos, t \in TenantIds : Create(dto, t)
    \/ \E id \in AppointmentIds, t \in TenantIds : Remove(id, t)
    \/ \E id \in TenantIds : Deactivate(id)
    \/ \E id \in TenantIds : Activate(id)

SpecTenants == InitTenantsSpec /\ [][NextTenants]_vars

\* every user, patient and appointment belongs to a tenant that exists
NoDanglingTenant ==
    /\ \A u \in UserIds : users[u].exists => users[u].tenantId \in DOMAIN tenants
    /\ \A p \in PatientIds : patients[p].tenantId \in DOMAIN tenants
    /\ \A a \in AppointmentIds :
          appointments[a].exists => appointments[a].tenantId \in DOMAIN tenants

C20_Step ==
    /\ \A id \in DOMAIN tenants :
          id \notin DOMAIN tenants'
             => /\ unreferenced(id)
                /\ res'.op = "tenants.remove" /\ res'.status = "ok"
                /\ UNCHANGED <<users, patients, appointments>>
    /\ ( /\ res' # res /\ res'.op = "tenants.remove"
         /\ res'.targetTenant \in DOMAIN tenants
         /\ ~unreferenced(res'.targetTenant) )
          => /\ res'.status = "BadRequest" /\ ~res'.wrote
             /\ UNCHANGED storeVars
    /\ ( /\ res' # res /\ res'.op = "tenants.remove"
         /\ res'.targetTenant \in DOMAIN tenants
         /\ unreferenced(res'.targetTenant) )
          => res'.status = "ok" /\ res'.targetTenant \notin DOMAIN tenants'

\* C20: remove deletes the tenant exactly when no user, patient or
\* appointment belongs to it; otherwise it fails with BadRequest and changes
\* nothing; no user, patient or appointment belongs to a deleted tenant.
C20_RemoveOnlyWithoutDependents == []NoDanglingTenant /\ [][C20_Step]_vars

C20_Witness ==
    /\ res.op = "tenants.remove" /\ res.status = "BadRequest"
    /\ res.targetTenant = TenantB /\ TenantB \in DOMAIN tenants
    /\ users[2].exists /\ users[2].tenantId = TenantB
    /\ patients["patient-b"].tenantId = TenantA

(***************************************************************************)
(* Further properties of the appointment operations.                       *)
(***************************************************************************)
\* C21: whenever an operation of the service makes the persisted status of
\* an appointment cancelled, the status before it was scheduled, confirmed
\* or already cancelled.
C21_CancelledOnlyFromOpen ==
    [][\A id \in AppointmentIds :
          (appointments[id].exists /\ appointments'[id].statusId = "cancelled")
              => appointments[id].statusId \in {"scheduled", "confirmed", "cancelled"}]_vars

(***************************************************************************)
(* Concurrent refresh calls.  refreshToken reads the user row, compares    *)
(* the presented token with the stored one and signs the new pair in one   *)
(* turn of the event loop; the update of the row is awaited and lands      *)
(* later, so another call can read the row in between.                     *)
(***************************************************************************)
CallIds == 1 .. MaxCalls

\* a call: where it is, the token presented, its outcome, the pair it signed
\* and will store, whether another call had passed the comparison and not yet
\* written when this one passed it, and its place among the writes
IdleRefreshCall ==
    [pc |-> "idle", presented |-> NoToken, status |-> "none", userId |-> 0,
     token |-> NoToken, expiresAt |-> NoDate, raced |-> FALSE, order |-> 0]

checkedCalls(userId) ==
    {d \in CallIds : calls[d].pc = "checked" /\ calls[d].userId = userId}

\* verify, findUnique, the comparison and both sign calls
RefreshBegin(c, refreshToken) ==
    /\ calls[c].pc = "idle"
    /\ LET r == AuthService_refreshToken(refreshToken) IN
       IF r.status # "ok"
       THEN calls' = [calls EXCEPT ![c] = [IdleRefreshCall EXCEPT
                         !.pc = "done", !.presented = refreshToken,
                         !.status = r.status]]
       ELSE calls' = [d \in CallIds |->
                        IF d = c
                        THEN [IdleRefreshCall EXCEPT
                                 !.pc = "checked", !.presented = refreshToken,
                                 !.status = "ok", !.userId = r.userId,
                                 !.token = r.refreshToken,
                                 !.expiresAt = r.table[r.userId].refreshTokenExpiresAt,
                                 !.raced = checkedCalls(r.userId) # {}]
                        ELSE IF d \in checkedCalls(r.userId)
                             THEN [calls[d] EXCEPT !.raced = TRUE]
                             ELSE calls[d]]
    /\ authRes' = [NoAuthRes EXCEPT !.op = "refreshToken.read",
                                    !.presented = refreshToken]
    /\ UNCHANGED <<storeVars, now, ticks, issued, lastIssued, loggedOut, nodeEnv,
                   accessVars, req, res, entityVars>>

\* mutant: the row is written only if it still holds the presented token
RefreshEndIfUnchanged(c) ==
    /\ calls[c].pc = "checked"
    /\ LET call == calls[c] IN
       /\ users' = IF users[call.userId].refreshToken = call.presented
                   THEN [users EXCEPT
                            ![call.userId].refreshToken = call.token,
                            ![call.userId].refreshTokenExpiresAt = call.expiresAt]
                   ELSE users
       /\ calls' = [calls EXCEPT ![c].pc = "done",
                       ![c].order = 1 + Cardinality({d \in CallIds : calls[d].order > 0})]
       /\ issued' = [issued EXCEPT ![call.userId] = @ \cup {call.token}]
       /\ lastIssued' = [lastIssued EXCEPT ![call.userId] = call.token]
       /\ loggedOut' = [loggedOut EXCEPT ![call.userId] = FALSE]
       /\ authRes' = [NoAuthRes EXCEPT !.op = "refreshToken.write", !.status = "ok",
                         !.userId = call.userId, !.refreshToken = call.token,
                         !.presented = call.presented, !.wrote = TRUE]
    /\ UNCHANGED <<tenants, patients, appointments, now, ticks, nodeEnv,
                   accessVars, req, res, entityVars>>

\* prisma.user.update lands and the pair is returned
RefreshEnd(c) ==
    /\ calls[c].pc = "checked"
    /\ LET call == calls[c] IN
       /\ users' = [users EXCEPT
                       ![call.userId].refreshToken = call.token,
                       ![call.userId].refreshTokenExpiresAt = call.expiresAt]
       /\ calls' = [calls EXCEPT ![c].pc = "done",
                       ![c].order = 1 + Cardinality({d \in CallIds : calls[d].order > 0})]
       /\ issued' = [issued EXCEPT ![call.userId] = @ \cup {call.token}]
       /\ lastIssued' = [lastIssued EXCEPT ![call.userId] = call.token]
       /\ loggedOut' = [loggedOut EXCEPT ![call.userId] = FALSE]
       /\ authRes' = [NoAuthRes EXCEPT !.op = "refreshToken.write", !.status = "ok",
                         !.userId = call.userId, !.refreshToken = call.token,
                         !.presented = call.presented, !.wrote = TRUE]
    /\ UNCHANGED <<tenants, patients, appointments, now, ticks, nodeEnv,
                   accessVars, req, res, entityVars>>

\* one active user, registered in the first tenant and not logged in
InitRefresh ==
    /\ InitTenants
    /\ InitPatients
    /\ users = [id \in UserIds |->
                  IF id = 1
                  THEN UserRow("vet@pawdex.com", "pw1", "veterinarian", TenantA)
                  ELSE NoUser]
    /\ appointments = [id \in AppointmentIds |-> NoAppointment]
    /\ InitAuthIdle /\ InitEntityIdle
    /\ nodeEnv = "production"
    /\ req = IdleReq
    /\ res = NoRes
    /\ InitAccessIdle
    /\ calls = [c \in CallIds |-> IdleRefreshCall]

NextRefresh ==
    \/ \E password \in Passwords, found \in {0} \cup UserIds :
           Login("vet@pawdex.com", password, None, found)
    \/ \E token \in IssuedRefreshTokens \cup {Garbage} :
           Refresh(token)
    \/ \E c \in CallIds, token \in IssuedRefreshTokens \cup {Garbage} :
           RefreshBegin(c, token)
    \/ \E c \in CallIds : RefreshEnd(c)
    \/ \E d \in ClockSteps : Advance(d)

SpecRefresh == InitRefresh /\ [][NextRefresh]_vars

\* the calls that passed the comparison while another had passed it and not
\* written, and have written since
racedCalls == {c \in CallIds : calls[c].raced /\ calls[c].order > 0}

\* the call whose write landed last
lastWriter ==
    LET written == {c \in CallIds : calls[c].order > 0} IN
    CHOOSE c \in written : \A d \in written : calls[d].order <= calls[c].order

\* a later refresh presenting the token would succeed
accepted(token) == AuthService_refreshToken(token).status = "ok"

\* the last write of a race has just landed
raceOver ==
    /\ authRes.op = "refreshToken.write"
    /\ Cardinality(racedCalls) >= 2 /\ lastWriter \in racedCalls
    /\ \A c \in CallIds : calls[c].pc # "checked"

\* C22, as stated: after a race the stored token is the one written last,
\* that one of the newly issued tokens is accepted by a later refresh and
\* every other one is rejected.
C22_ExactlyLastWriterAccepted ==
    (raceOver /\ \A c \in racedCalls : jwtVerify(calls[c].token, now))
    => /\ users[calls[lastWriter].userId].refreshToken = calls[lastWriter].token
       /\ \A c \in racedCalls : accepted(calls[c].token) <=> c = lastWriter

\* C22, amended: after a race the stored token is the one written last, and
\* a later refresh accepts a newly issued token exactly when it is that
\* string and has not expired; calls that signed within the same second
\* hold the same string.
C22_LastWriterWins ==
    raceOver
    => /\ users[calls[lastWriter].userId].refreshToken = calls[lastWriter].token
       /\ \A c \in racedCalls :
             accepted(calls[c].token)
                <=> ( /\ calls[c].token = calls[lastWriter].token
                      /\ jwtVerify(calls[c].token, now) )

C22_Witness ==
    /\ raceOver
    /\ \E c \in racedCalls :
          /\ c # lastWriter
          /\ calls[c].presented = calls[lastWriter].presented
          /\ calls[c].token # calls[lastWriter].token
          /\ ~accepted(calls[c].token)
    /\ accepted(calls[lastWriter].token)

(***************************************************************************)
(* Exceptions raised inside a guard.                                       *)
(***************************************************************************)
\* C23: any exception raised while a guard executes (the feature-flag
\* lookup failing for an authenticated subject whose user record is
\* missing, or a persistence error) reaches the client as Forbidden or
\* Unauthenticated, never as another status, and the handler does not run.
C23_GuardExceptionsForbiddenOrUnauthenticated ==
    (accessRes.op = "FeatureFlagsGuard" /\ accessRes.thrown # None)
        => /\ accessRes.status \in {HttpExceptions["ForbiddenException"],
                                    HttpExceptions["UnauthorizedException"]}
           /\ ~accessRes.granted

(***************************************************************************)
(* Explicit tenant references.                                             *)
(***************************************************************************)
\* C25: for every existing active tenant T, an explicit tenant value (the
\* X-Tenant-ID / X-Tenant-Subdomain header or the login hint) equal to T's
\* id resolves to T and equal to T's subdomain resolves to T; no value that
\* identifies an existing active tenant is reported unresolvable.
C25_ExplicitTenantResolves ==
    \A id \in DOMAIN tenants :
        tenants[id].isActive
        => \A ref \in {id, tenants[id].subdomain} :
              /\ extractTenantFromHeader(ref, None) = Ok(TenantView(id))
              /\ extractTenantFromHeader(None, ref) = Ok(TenantView(id))
              /\ resolveLoginTenant(ref) = Ok(TenantView(id))

(***************************************************************************)
(* Deactivated permissions.                                                *)
(***************************************************************************)
\* C26: the effective permission set is computed from the role's active
\* permissions only: the system.admin expansion applies only when
\* system.admin is among the assigned permissions that are active, so a
\* role holding a deactivated system.admin gets its active assigned
\* permissions and no more, and a deactivated ordinary permission is never
\* in a non-admin user's effective set.
C26_EffectiveSetFromActiveOnly ==
    \A u \in ExistingUsers :
        LET assigned == rolePermissions[users[u].roleId]
            effective == PermissionsService_getUserPermissions(u) IN
        /\ (SystemAdmin \in assigned /\ ~permissions[SystemAdmin].isActive)
              => effective = {n \in assigned : permissions[n].isActive}
        /\ SystemAdmin \notin assigned
              => \A n \in PermissionNames :
                    ~permissions[n].isActive => n \notin effective

(***************************************************************************)
(* Calls of the AppointmentsService with the call kept in the response:    *)
(* the tenant it was made for and its dto.                                 *)
(***************************************************************************)
AppointmentOps == {"create", "update", "updateStatus", "cancel", "remove"}

\* update dtos whose date is absent, a Date object or an ISO string
UpdateDtosAnyDate ==
    [status : {None, "completed", "scheduled"}, duration : {0, 60},
     date : {NoDateGiven, [isDate |-> TRUE, past |-> TRUE],
             [isDate |-> FALSE, past |-> TRUE]}]

Call(op, r, id, to, tenantId, dto) ==
    /\ appointments' = r.table
    /\ res' = [Response(op, r, id, appointmentTenant(id), appointmentStatus(id),
                        to, r.table # appointments)
                 EXCEPT !.tenantId = tenantId, !.past = dto.date.past,
                        !.duration = dto.duration, !.dto = dto]
    /\ UNCHANGED <<tenants, users, patients, nodeEnv, accessVars, calls, req,
                   authVars, entityVars>>

CreateAppointment(dto, tenantId) ==
    /\ FreeAppointmentIds # {}
    /\ Call("create", AppointmentsService_create(dto, tenantId), 0, None,
            tenantId, dto)

UpdateAppointment(id, dto, tenantId) ==
    Call("update", AppointmentsService_update(id, dto, tenantId), id, dto.status,
         tenantId, [date |-> dto.date, duration |-> dto.duration])

UpdateAppointmentStatus(id, status, tenantId) ==
    Call("updateStatus", AppointmentsService_updateStatus(id, status, tenantId),
         id, status, tenantId, NoDto)

CancelAppointment(id, tenantId) ==
    Call("cancel", AppointmentsService_cancel(id, tenantId), id, "cancelled",
         tenantId, NoDto)

RemoveAppointment(id, tenantId) ==
    Call("remove", AppointmentsService_remove(id, tenantId), id, "cancelled",
         tenantId, NoDto)

NextCalls ==
    \/ \E dto \in CreateDtos, t \in TenantIds : CreateAppointment(dto, t)
    \/ \E id \in AppointmentIds, dto \in UpdateDtosAnyDate, t \in TenantIds :
           UpdateAppointment(id, dto, t)
    \/ \E id \in AppointmentIds, st \in RouteStatuses, t \in TenantIds :
           UpdateAppointmentStatus(id, st, t)
    \/ \E id \in AppointmentIds, t \in TenantIds : CancelAppointment(id, t)
    \/ \E id \in AppointmentIds, t \in TenantIds : RemoveAppointment(id, t)

SpecCalls == InitAppointments /\ [][NextCalls]_vars

\* C24: every appointment operation that fails leaves the store unchanged:
\* update, updateStatus, cancel and remove on a missing id or an id of
\* another tenant fail with NotFound; update on a completed appointment or
\* with a past date and updateStatus with a denied transition fail with
\* BadRequest; create with a past date or a non-positive duration fails;
\* none of them writes.
C24_FailuresWriteNothing ==
    res.op \in AppointmentOps
    => /\ res.status # "ok" => ~res.wrote
       /\ (res.op # "create" /\ res.targetTenant # res.tenantId)
             => (res.status = "NotFound" /\ ~res.wrote)
       /\ (res.op = "update" /\ res.targetTenant = res.tenantId
             /\ (res.from = "completed" \/ res.past))
             => (res.status = "BadRequest" /\ ~res.wrote)
       /\ (res.op = "updateStatus" /\ res.targetTenant = res.tenantId
             /\ res.from \in Absorbing /\ res.to \in Earlier)
             => (res.status = "BadRequest" /\ ~res.wrote)
       /\ (res.op = "create" /\ (res.past \/ res.duration <= 0))
             => (res.status # "ok" /\ ~res.wrote)

\* creations, cancellations and soft deletes of patients
NextCreate ==
    \/ \E dto \in CreateDtos, t \in TenantIds : CreateAppointment(dto, t)
    \/ \E id \in AppointmentIds, t \in TenantIds : CancelAppointment(id, t)
    \/ \E id \in PatientIds, t \in TenantIds : PatientsRemove(id, t)

SpecCreate == InitAppointments /\ [][NextCreate]_vars

\* the appointment a successful create stored
created == CHOOSE id \in AppointmentIds : \E r \in res.records : r.id = id

\* C27: create(dto, tenantId) succeeds only if the patient and the
\* veterinarian of the dto are active records of tenantId; with a patient
\* or vet of another tenant it is rejected with a client error and creates
\* nothing; every appointment it creates carries tenantId and the status
\* scheduled, whatever the dto contains.
C27_CreateWithinTenant ==
    res.op = "create"
    => /\ res.status \in {"ok", "BadRequest"}
       /\ res.status = "ok"
             => /\ findActivePatient(res.dto.patientId, res.tenantId)
                /\ findActiveUser(res.dto.vetId, res.tenantId)
                /\ res.records = {Rec("appointment", created, res.tenantId)}
                /\ appointments[created].tenantId = res.tenantId
                /\ appointments[created].statusId = "scheduled"
                /\ appointments[created].patientId = res.dto.patientId
                /\ appointments[created].vetId = res.dto.vetId
       /\ ( \/ ~findActivePatient(res.dto.patientId, res.tenantId)
            \/ ~findActiveUser(res.dto.vetId, res.tenantId) )
             => (res.status = "BadRequest" /\ ~res.wrote /\ res.records = {})

\* a dto naming another tenant and another status was stored under the
\* caller's tenant as scheduled
C27_Witness ==
    /\ res.op = "create" /\ res.status = "ok"
    /\ res.dto.tenantId # None /\ res.dto.tenantId # res.tenantId
    /\ res.dto.statusId = "completed"
    /\ appointments[created].tenantId = res.tenantId
    /\ appointments[created].statusId = "scheduled"

(***************************************************************************)
(* Concurrent status changes.  updateStatus and cancel await findFirst,    *)
(* validate what was read and then await the update; another call on the   *)
(* same appointment can read or write between the two.                     *)
(***************************************************************************)
IdleStatusCall ==
    [pc |-> "idle", op |-> None, id |-> 0, tenantId |-> None, read |-> None,
     statusId |-> None]

\* targets the sequential checks of updateStatus treat as the lifecycle
\* asks (the entity and the status table spell them alike)
RaceStatuses == {"confirmed", "completed"}

\* findFirst and the validation of one call; a call that passes holds the
\* statusId it is going to write
StatusBegin(c, op, r, id, tenantId) ==
    /\ calls[c].pc \in {"idle", "done"}
    /\ calls' = [calls EXCEPT ![c] =
                    IF r.status # "ok"
                    THEN [IdleStatusCall EXCEPT
                             !.pc = "done", !.op = op, !.id = id,
                             !.tenantId = tenantId, !.read = appointmentStatus(id)]
                    ELSE [IdleStatusCall EXCEPT
                             !.pc = "validated", !.op = op, !.id = id,
                             !.tenantId = tenantId, !.read = appointmentStatus(id),
                             !.statusId = r.table[id].statusId]]
    /\ res' = [Response(op, r, id, appointmentTenant(id), appointmentStatus(id),
                        None, FALSE) EXCEPT !.tenantId = tenantId]
    /\ UNCHANGED <<storeVars, nodeEnv, accessVars, req, authVars, entityVars>>

UpdateStatusBegin(c, id, status, tenantId) ==
    StatusBegin(c, "updateStatus",
                AppointmentsService_updateStatus(id, status, tenantId), id, tenantId)

CancelBegin(c, id, tenantId) ==
    StatusBegin(c, "cancel", AppointmentsService_cancel(id, tenantId), id, tenantId)

\* prisma.appointment.update({ where: { id, tenantId }, data: { statusId } })
StatusEnd(c) ==
    /\ calls[c].pc = "validated"
    /\ LET call == calls[c] IN
       /\ appointments' = [appointments EXCEPT ![call.id].statusId = call.statusId]
       /\ calls' = [calls EXCEPT ![c].pc = "done"]
       /\ res' = [NoRes EXCEPT !.op = call.op, !.status = "ok", !.id = call.id,
                               !.from = appointments[call.id].statusId,
                               !.to = call.statusId, !.wrote = TRUE,
                               !.tenantId = call.tenantId]
    /\ UNCHANGED <<tenants, users, patients, nodeEnv, accessVars, req, authVars,
                   entityVars>>

\* one scheduled appointment of the first tenant and no call under way
InitStatusRace ==
    /\ InitTenants
    /\ InitPatients
    /\ users = [id \in UserIds |->
                  IF id = 1
                  THEN UserRow("vet@pawdex.com", "pw1", "veterinarian", TenantA)
                  ELSE NoUser]
    /\ appointments = [id \in AppointmentIds |->
                         IF id = 1
                         THEN [exists |-> TRUE, tenantId |-> TenantA,
                               patientId |-> "patient-a", vetId |-> 1,
                               statusId |-> "scheduled", duration |-> 30]
                         ELSE NoAppointment]
    /\ InitAuthIdle /\ InitEntityIdle
    /\ nodeEnv = "production"
    /\ req = IdleReq
    /\ res = NoRes
    /\ InitAccessIdle
    /\ calls = [c \in CallIds |-> IdleStatusCall]

NextStatusRace ==
    \/ \E c \in CallIds, id \in AppointmentIds, st \in RaceStatuses, t \in TenantIds :
           UpdateStatusBegin(c, id, st, t)
    \/ \E c \in CallIds, id \in AppointmentIds, t \in TenantIds : CancelBegin(c, id, t)
    \/ \E c \in CallIds : StatusEnd(c)

SpecStatusRace == InitStatusRace /\ [][NextStatusRace]_vars

\* C28: for every interleaving of concurrent updateStatus / cancel calls on
\* one appointment the persisted status never changes from completed,
\* cancelled or no_show to scheduled, confirmed or in_progress, and never
\* changes to cancelled from a status other than scheduled or confirmed.
C28_LifecycleUnderConcurrency ==
    [][\A id \in AppointmentIds :
          appointments[id].exists
          => /\ ~( /\ appointments[id].statusId \in Absorbing
                   /\ appointments'[id].statusId \in Earlier )
             /\ ( /\ appointments'[id].statusId = "cancelled"
                  /\ appointments[id].statusId # "cancelled" )
                   => appointments[id].statusId \in {"scheduled", "confirmed"}]_vars

(***************************************************************************)
(* The two evaluations of a feature flag.                                  *)
(***************************************************************************)
\* C29: for every existing user u with role r and every flag key k, in
\* every reachable state of flags and role assignments, hasFeatureFlag(u, k)
\* (membership in getUserFeatureFlags(u)) equals isFeatureFlagEnabled(k, r).
C29_FlagEvaluationsAgree ==
    /\ \A u \in ExistingUsers, k \in FlagKeys \cup {UnknownFlag} :
          LET h == FeatureFlagsService_hasFeatureFlag(u, k) IN
          /\ h.thrown = None
          /\ h.has <=> FeatureFlagsService_isFeatureFlagEnabled(k, users[u].roleId)
    /\ (accessRes.op = "hasFeatureFlag" /\ accessRes.userId \in ExistingUsers)
          => ( accessRes.granted
               <=> FeatureFlagsService_isFeatureFlagEnabled(
                       accessRes.key, users[accessRes.userId].roleId) )

\* hasFeatureFlag denied a flag that the user's role has an enabled
\* assignment of, because the flag is switched off
C29_Witness ==
    /\ accessRes.op = "hasFeatureFlag" /\ ~accessRes.granted
    /\ accessRes.userId \in ExistingUsers
    /\ accessRes.key \in FlagKeys
    /\ featureFlags[accessRes.key].exists /\ ~featureFlags[accessRes.key].isActive
    /\ roleAssignment(accessRes.key, users[accessRes.userId].roleId) = "enabled"

(***************************************************************************)
(* Login by email alone.                                                   *)
(***************************************************************************)
\* the users a login with this email and password is meant for
eligible(email, password) ==
    {u \in ExistingUsers :
        /\ users[u].email = email /\ users[u].isActive /\ tenantActive(u)
        /\ bcryptCompare(password, users[u].password)}

\* C30: login(email, password) without a tenant hint succeeds whenever some
\* active user in an active tenant has that email and that password, and
\* the tokens it returns name exactly such a user; with the same email in
\* several tenants each of those users can log in with its own password.
C30_LoginWithoutHint ==
    \A email \in Emails, password \in Passwords :
        LET candidates == loginCandidates(email, None) IN
        \A found \in (IF candidates = {} THEN {0} ELSE candidates) :
            LET r == AuthService_login(email, password, None, found) IN
            /\ eligible(email, password) # {} => r.status = "ok"
            /\ r.status = "ok"
                  => /\ r.userId \in eligible(email, password)
                     /\ r.refreshToken.sub = r.userId
                     /\ r.accessToken.sub = r.userId

====
